---- MODULE Spec2Model ----
(***************************************************************************)
(* Model of the sudojo_ocr pixel pipeline: grayscale conversion, blur,     *)
(* edge detection, line finding, the three board-location strategies,      *)
(* squarifyRectangle, parseDigitFromText, binarize, dilate, isCellEmpty,   *)
(* enhanceContrast, preprocessForOCR, extractCells, recognizeCells and     *)
(* extractSudokuFromImage with its progress events.                        *)
(*                                                                         *)
(* Buffers are functions over 0..n-1 (row-major, as the typed arrays of    *)
(* the source).  Real-valued comparisons of the source are written with    *)
(* integers: n * 0.3 > d becomes 3 * n > 10 * d, and so on.  Each such     *)
(* rewriting agrees with the IEEE-754 evaluation of the source for all     *)
(* dimensions up to 400; where the double or Float32Array rounding of the  *)
(* source changes an outcome (toGrayscale, the density arrays of           *)
(* findRectangleLowThreshold, the score of findRectangleFromLines, the     *)
(* cell number of the progress messages) the rounding is modelled and      *)
(* commented.                                                              *)
(***************************************************************************)
EXTENDS Integers, Sequences, FiniteSets, TLC

\* null, as a record so that it can be compared with a Rectangle
Null == [null |-> TRUE]

Min(a, b) == IF a < b THEN a ELSE b
Max(a, b) == IF a > b THEN a ELSE b
Abs(a) == IF a < 0 THEN -a ELSE a

(***************************************************************************)
(* safeGet: a read outside the buffer yields 0.                            *)
(***************************************************************************)
safeGet(arr, index) == IF index \in DOMAIN arr THEN arr[index] ELSE 0

(***************************************************************************)
(* toGrayscale.  The source evaluates                                      *)
(*   Math.floor(0.299 * r + 0.587 * g + 0.114 * b)                         *)
(* in doubles.  The exact value is (299r + 587g + 114b) / 1000; the double *)
(* sum differs from it by less than 1e-12, so the floor can differ from    *)
(* the exact floor only when the exact value is an integer, and then the   *)
(* double sum is either that integer or just below it.  For r = g = b = v  *)
(* the double sum falls below v exactly for the levels of GrayRoundsDown   *)
(* (e.g. 0.299*128 + 0.587*128 + 0.114*128 = 127.99999999999999).          *)
(***************************************************************************)
GrayRoundsDown ==
    {1, 2, 4, 8, 11, 13, 16, 22, 26, 27, 32, 39, 44, 51, 52, 54, 57, 59, 61,
     64, 78, 81, 88, 91, 95, 101, 102, 104, 108, 114, 115, 118, 122, 127,
     128, 143, 149, 156, 157, 162, 169, 175, 176, 182, 183, 190, 195, 202,
     203, 204, 208, 209, 216, 223, 225, 228, 230, 235, 236, 239, 241, 244,
     249, 251, 254}

\* Of the 3399 triples with r, g, b not all equal whose double sum falls below
\* an integer exact value, the ones over the channel levels of ChannelLevels
\* (0.299*100 + 0.587*200 + 0.114*50 = 152.99999999999997).
ChannelLevels == {0, 50, 100, 112, 128, 144, 160, 200, 255}
ColourRoundsDown == {<<100, 200, 50>>}

LumaRoundsDown(r, g, b) ==
    \/ r = g /\ g = b /\ r \in GrayRoundsDown
    \/ <<r, g, b>> \in ColourRoundsDown

Luma(r, g, b) ==
    LET exact == 299 * r + 587 * g + 114 * b
    IN  IF exact % 1000 = 0 /\ LumaRoundsDown(r, g, b)
        THEN (exact \div 1000) - 1
        ELSE exact \div 1000

\* imageData.data is modelled as one <<r, g, b, a>> tuple per pixel.
toGrayscale(imageData) ==
    [i \in 0..(imageData.width * imageData.height - 1) |->
        LET p == imageData.data[i] IN Luma(p[1], p[2], p[3])]

(***************************************************************************)
(* gaussianBlur: result starts as a zero-filled Uint8Array; only interior  *)
(* pixels (1 <= x < width-1, 1 <= y < height-1) are written.               *)
(***************************************************************************)
kernel == <<1, 2, 1, 2, 4, 2, 1, 2, 1>>
kernelSum == 16

IsInterior(i, width, height) ==
    LET x == i % width
        y == i \div width
    IN  x >= 1 /\ x < width - 1 /\ y >= 1 /\ y < height - 1

\* the 3x3 kernel sum at pixel i; tap (ky, kx) reads index
\* (y + ky) * width + (x + kx) = i + ky * width + kx and has kernel index
\* (ky + 1) * 3 + (kx + 1)
Convolve(arr, k, i, width) ==
    LET T(offset, kernelIdx) == safeGet(arr, i + offset) * k[kernelIdx + 1]
    IN  T(-width - 1, 0) + T(-width, 1) + T(-width + 1, 2)
      + T(-1, 3)         + T(0, 4)      + T(1, 5)
      + T(width - 1, 6)  + T(width, 7)  + T(width + 1, 8)

gaussianBlur(gray, width, height) ==
    [i \in 0..(width * height - 1) |->
        IF IsInterior(i, width, height)
        THEN Convolve(gray, kernel, i, width) \div kernelSum
        ELSE 0]

(***************************************************************************)
(* cannyEdgeDetection.  magnitude = sqrt(gx^2 + gy^2) is compared with     *)
(* 0.2 * maxMag; the model compares the squares: 25 * mag^2 > maxMag^2.    *)
(* The two agree unless 25 * mag^2 = maxMag^2 with mag > 0 (ThresholdTie), *)
(* where the Float32Array rounding of the source decides.                  *)
(***************************************************************************)
sobelX == <<-1, 0, 1, -2, 0, 2, -1, 0, 1>>
sobelY == <<-1, -2, -1, 0, 0, 0, 1, 2, 1>>

MagnitudeSq(gray, width, height) ==
    [i \in 0..(width * height - 1) |->
        IF IsInterior(i, width, height)
        THEN LET gx == Convolve(gray, sobelX, i, width)
                 gy == Convolve(gray, sobelY, i, width)
             IN  gx * gx + gy * gy
        ELSE 0]

MaxOf(S) == IF S = {} THEN 0 ELSE CHOOSE m \in S : \A v \in S : v <= m

\* variant of IsEdge with an inclusive threshold (mag >= threshold)
IsEdgeInclusive(magSq, maxMagSq) == 25 * magSq >= maxMagSq

IsEdge(magSq, maxMagSq) == 25 * magSq > maxMagSq

cannyEdgeDetection(gray, width, height) ==
    LET magnitude == MagnitudeSq(gray, width, height)
        maxMag    == MaxOf({magnitude[i] : i \in DOMAIN magnitude})
    IN  [i \in DOMAIN magnitude |->
            IF IsEdge(magnitude[i], maxMag) THEN 255 ELSE 0]

ThresholdTie(gray, width, height) ==
    LET magnitude == MagnitudeSq(gray, width, height)
        maxMag    == MaxOf({magnitude[i] : i \in DOMAIN magnitude})
    IN  \E i \in DOMAIN magnitude :
            magnitude[i] > 0 /\ 25 * magnitude[i] = maxMag

(***************************************************************************)
(* findHorizontalLines / findVerticalLines.  A Line is                     *)
(* [position, strength] with strength the fraction run / extent, kept as   *)
(* the pair [num, den].  maxRun >= width * 0.5 is 2 * maxRun >= width.     *)
(***************************************************************************)
\* <<longest, first, last>> of two adjacent ranges of lengths lenA and lenB
JoinRuns(a, b, lenA, lenB) ==
    <<Max(Max(a[1], b[1]), a[3] + b[2]),
      IF a[2] = lenA THEN a[2] + b[2] ELSE a[2],
      IF b[3] = lenB THEN b[3] + a[3] ELSE b[3]>>

RECURSIVE RunSummary(_, _, _)
\* for cells[lo..hi]: the longest run of edge pixels, the run at the start
\* and the run at the end, found by halving the range (one nested
\* application per pixel exhausts the evaluation stack on board-sized images)
RunSummary(cells, lo, hi) ==
    IF lo = hi
    THEN IF cells[lo] > 0 THEN <<1, 1, 1>> ELSE <<0, 0, 0>>
    ELSE JoinRuns(RunSummary(cells, lo, (lo + hi) \div 2),
                  RunSummary(cells, ((lo + hi) \div 2) + 1, hi),
                  ((lo + hi) \div 2) - lo + 1, hi - ((lo + hi) \div 2))

\* mutant: the edge pixels of the scan line are counted, adjacent or not
EdgeCount(cells, i, currentRun, maxRun) ==
    Cardinality({k \in i..Len(cells) : cells[k] > 0})

\* cells: sequence of edge values along the scan line; i: next index;
\* currentRun / maxRun as in the source loop: the value of maxRun after the
\* loop has run from i to the end.
LongestRun(cells, i, currentRun, maxRun) ==
    IF i > Len(cells) THEN maxRun
    ELSE LET rest == RunSummary(cells, i, Len(cells))
         IN  Max(maxRun, Max(currentRun + rest[2], rest[1]))

RowCells(edges, y, width) == [x \in 1..width |-> safeGet(edges, y * width + (x - 1))]
ColCells(edges, x, width, height) ==
    [y \in 1..height |-> safeGet(edges, (y - 1) * width + x)]

RECURSIVE ScanLines(_, _, _, _)
\* run[p] is the longest run at position p; positions p..count-1 are
\* visited in increasing order and a line is pushed when the run is long
\* enough (the range is halved, the order of the pushes is kept).
ScanLines(run, count, extent, p) ==
    IF p >= count THEN <<>>
    ELSE IF p = count - 1
         THEN IF 2 * run[p] >= extent
              THEN <<[position |-> p, strength |-> [num |-> run[p], den |-> extent]]>>
              ELSE <<>>
         ELSE ScanLines(run, (p + count) \div 2, extent, p)
                \o ScanLines(run, count, extent, (p + count) \div 2)

findHorizontalLines(edges, width, height) ==
    LET run == [y \in 0..(height - 1) |->
                    LongestRun(RowCells(edges, y, width), 1, 0, 0)]
    IN  ScanLines(run, height, width, 0)

findVerticalLines(edges, width, height) ==
    LET run == [x \in 0..(width - 1) |->
                    LongestRun(ColCells(edges, x, width, height), 1, 0, 0)]
    IN  ScanLines(run, width, height, 0)

(***************************************************************************)
(* groupLines(lines, margin) with margin = marginNum / 100 (the caller     *)
(* passes Math.min(width, height) * 0.03, i.e. marginNum = 3 * min).       *)
(***************************************************************************)
\* mutant: the weaker line replaces the stronger
Weaker(a, b) == a.num * b.den < b.num * a.den

Stronger(a, b) == a.num * b.den > b.num * a.den

\* index of the first grouped line closer than margin to pos, 0 if none
FindExisting(grouped, pos, marginNum) ==
    LET hits == {g \in 1..Len(grouped) :
                    100 * Abs(grouped[g].position - pos) < marginNum}
    IN  IF hits = {} THEN 0 ELSE CHOOSE g \in hits : \A o \in hits : g <= o

RECURSIVE GroupFold(_, _, _, _)
GroupFold(lines, i, grouped, marginNum) ==
    IF i > Len(lines) THEN grouped
    ELSE LET line == lines[i]
             e    == FindExisting(grouped, line.position, marginNum)
         IN  IF e # 0
             THEN IF Stronger(line.strength, grouped[e].strength)
                  THEN GroupFold(lines, i + 1,
                                 [grouped EXCEPT ![e] = line], marginNum)
                  ELSE GroupFold(lines, i + 1, grouped, marginNum)
             ELSE GroupFold(lines, i + 1, Append(grouped, line), marginNum)

RECURSIVE SortByPosition(_)
\* Array.prototype.sort with (a, b) => a.position - b.position (stable).
SortByPosition(ls) ==
    IF Len(ls) = 0 THEN <<>>
    ELSE LET lo == CHOOSE i \in 1..Len(ls) :
                     \A j \in 1..Len(ls) :
                        \/ ls[i].position < ls[j].position
                        \/ (ls[i].position = ls[j].position /\ i <= j)
             rest == [k \in 1..(Len(ls) - 1) |-> IF k < lo THEN ls[k] ELSE ls[k + 1]]
         IN  <<ls[lo]>> \o SortByPosition(rest)

groupLines(lines, marginNum) ==
    SortByPosition(GroupFold(lines, 1, <<>>, marginNum))

(***************************************************************************)
(* findRectangleFromLines.  The score                                      *)
(*   area * aspectRatio * squareBonus * boundaryPenalty                    *)
(* is kept exactly, scaled by 20000: squareBonus is carried as twice its   *)
(* value and each boundary factor as ten times its value.  area * min is   *)
(* a multiple of max, so the division below is exact.  The source          *)
(* multiplies doubles, so its score is the exact product rounded four      *)
(* times; candidates whose exact scores are equal can get doubles that     *)
(* differ in the last bits.  ScoreUlps gives the distance of the double    *)
(* from the correctly rounded exact score in units of the last place; it   *)
(* is tabulated for the rectangles that the line sets of SpecDetect and    *)
(* SpecLines give rise to (0 for every other rectangle of those).          *)
(***************************************************************************)
SquareBonus2(lo, hi) ==
    IF 10 * lo > 9 * hi THEN 5
    ELSE IF 5 * lo > 4 * hi THEN 4
    ELSE IF 10 * lo > 7 * hi THEN 3
    ELSE 2

\* borderMargin = Math.min(width, height) * 0.02, compared times 50
BoundaryPenalty(r, width, height) ==
    LET bm == Min(width, height)
    IN  (IF 50 * r.top < bm THEN 7 ELSE 10)
      * (IF 50 * r.bottom > 50 * height - bm THEN 7 ELSE 10)
      * (IF 50 * r.left < bm THEN 8 ELSE 10)
      * (IF 50 * r.right > 50 * width - bm THEN 8 ELSE 10)

RectScore(r, width, height) ==
    LET rectWidth  == r.right - r.left
        rectHeight == r.bottom - r.top
        area       == rectWidth * rectHeight
        lo         == Min(rectWidth, rectHeight)
        hi         == Max(rectWidth, rectHeight)
    IN  ((area * lo) \div hi) * SquareBonus2(lo, hi)
            * BoundaryPenalty(r, width, height)

\* how many of top / bottom, and of left / right, touch the image boundary
TouchedRows(r, width, height) ==
    (IF 50 * r.top < Min(width, height) THEN 1 ELSE 0)
      + (IF 50 * r.bottom > 50 * height - Min(width, height) THEN 1 ELSE 0)
TouchedColumns(r, width, height) ==
    (IF 50 * r.left < Min(width, height) THEN 1 ELSE 0)
      + (IF 50 * r.right > 50 * width - Min(width, height) THEN 1 ELSE 0)

\* <<min side, max side, touched rows, touched columns>> of the rectangles
\* whose double score lies two places below, one below, one above and two
\* above the correctly rounded exact score
scoreTwoBelow ==
    {<<22, 30, 1, 0>>, <<31, 39, 1, 0>>, <<37, 66, 1, 1>>, <<56, 97, 1, 1>>}
scoreOneBelow ==
    {<<1, 2, 1, 1>>, <<1, 3, 1, 1>>, <<1, 4, 1, 1>>, <<1, 5, 1, 1>>,
     <<2, 3, 1, 1>>, <<2, 4, 1, 1>>, <<2, 5, 1, 1>>, <<3, 3, 1, 0>>,
     <<3, 3, 1, 1>>, <<3, 5, 1, 1>>, <<4, 5, 1, 0>>, <<4, 5, 1, 1>>,
     <<5, 5, 1, 1>>, <<15, 22, 0, 0>>, <<15, 26, 0, 0>>, <<18, 35, 0, 0>>,
     <<20, 33, 1, 1>>, <<20, 35, 1, 1>>, <<20, 64, 1, 1>>, <<20, 66, 1, 1>>,
     <<20, 96, 1, 1>>, <<20, 97, 1, 1>>, <<21, 31, 0, 0>>, <<22, 30, 0, 0>>,
     <<22, 32, 1, 0>>, <<22, 33, 1, 0>>, <<22, 33, 1, 1>>, <<22, 35, 1, 1>>,
     <<22, 64, 1, 1>>, <<22, 66, 1, 1>>, <<22, 96, 1, 1>>, <<22, 97, 1, 1>>,
     <<22, 99, 1, 2>>, <<30, 39, 1, 0>>, <<30, 59, 2, 0>>, <<30, 99, 2, 0>>,
     <<31, 35, 1, 0>>, <<31, 37, 1, 0>>, <<31, 56, 1, 0>>, <<31, 57, 1, 0>>,
     <<31, 64, 1, 0>>, <<31, 66, 1, 0>>, <<31, 96, 1, 0>>, <<31, 97, 1, 0>>,
     <<31, 99, 2, 0>>, <<32, 59, 2, 0>>, <<32, 99, 2, 0>>, <<33, 33, 1, 0>>,
     <<33, 35, 1, 0>>, <<33, 37, 1, 1>>, <<33, 39, 1, 1>>, <<33, 56, 1, 1>>,
     <<33, 57, 1, 1>>, <<33, 59, 2, 0>>, <<33, 64, 1, 1>>, <<33, 66, 1, 1>>,
     <<33, 96, 1, 1>>, <<33, 97, 1, 1>>, <<33, 99, 1, 2>>, <<33, 99, 2, 0>>,
     <<35, 35, 1, 1>>, <<35, 37, 1, 1>>, <<35, 39, 1, 1>>, <<35, 56, 1, 1>>,
     <<35, 57, 1, 1>>, <<35, 59, 2, 1>>, <<35, 64, 1, 1>>, <<35, 66, 1, 1>>,
     <<35, 96, 1, 1>>, <<35, 97, 1, 1>>, <<35, 99, 2, 1>>, <<37, 64, 1, 1>>,
     <<37, 96, 1, 1>>, <<37, 97, 1, 1>>, <<37, 99, 1, 2>>, <<39, 64, 1, 1>>,
     <<39, 66, 1, 1>>, <<39, 96, 1, 1>>, <<39, 97, 1, 1>>, <<39, 99, 1, 2>>,
     <<56, 64, 1, 1>>, <<56, 66, 1, 1>>, <<56, 96, 1, 1>>, <<56, 99, 1, 2>>,
     <<57, 64, 1, 1>>, <<57, 66, 1, 1>>, <<57, 96, 1, 1>>, <<57, 97, 1, 1>>,
     <<59, 64, 2, 1>>, <<59, 97, 2, 1>>, <<64, 96, 1, 1>>, <<64, 97, 1, 1>>,
     <<64, 99, 1, 2>>, <<64, 99, 2, 1>>, <<66, 96, 1, 1>>, <<66, 97, 1, 1>>,
     <<66, 99, 1, 2>>, <<96, 96, 1, 1>>, <<96, 97, 1, 1>>, <<96, 99, 1, 2>>,
     <<96, 99, 2, 1>>, <<97, 97, 1, 1>>, <<97, 99, 1, 2>>, <<99, 99, 2, 2>>}
scoreOneAbove ==
    {<<4, 5, 0, 1>>, <<15, 29, 0, 0>>, <<18, 99, 0, 2>>, <<20, 99, 0, 2>>,
     <<21, 38, 0, 0>>, <<22, 36, 0, 0>>, <<30, 99, 0, 2>>, <<31, 35, 0, 1>>,
     <<31, 64, 0, 1>>, <<31, 66, 0, 1>>, <<31, 96, 0, 1>>, <<31, 99, 0, 2>>,
     <<32, 99, 0, 2>>, <<33, 99, 0, 2>>, <<57, 99, 1, 2>>}
scoreTwoAbove ==
    {<<19, 99, 0, 2>>}

ScoreUlps(r, width, height) ==
    LET key == <<Min(r.right - r.left, r.bottom - r.top),
                 Max(r.right - r.left, r.bottom - r.top),
                 TouchedRows(r, width, height), TouchedColumns(r, width, height)>>
    IN  IF key \in scoreOneBelow THEN -1
        ELSE IF key \in scoreOneAbove THEN 1
        ELSE IF key \in scoreTwoBelow THEN -2
        ELSE IF key \in scoreTwoAbove THEN 2
        ELSE 0

\* mutant: of two candidates with the same exact score the later one wins
ScoreGreaterOrTied(score, ulps, best) == score >= best.score

\* score > bestScore, on the doubles
ScoreGreater(score, ulps, best) ==
    \/ score > best.score
    \/ (score = best.score /\ ulps > best.ulps)

\* mutant: a quarter of the image height is enough
TooLowQuarter(rectHeight, height) == 4 * rectHeight < height

TooLow(rectHeight, height) == 10 * rectHeight < 3 * height
TooNarrow(rectWidth, width) == 10 * rectWidth < 3 * width

RECURSIVE PairsFrom(_, _, _)
\* the index pairs <<i, j>>, i < j, in the order of the nested for loops
PairsFrom(n, i, j) ==
    IF i > n - 1 THEN <<>>
    ELSE IF j > n THEN PairsFrom(n, i + 1, i + 2)
    ELSE <<(<<i, j>>)>> \o PairsFrom(n, i, j + 1)

RECURSIVE InnerLoop(_, _, _, _, _, _, _, _)
\* the k / l loops for one (top, bottom); best = [rect, score, ulps]
InnerLoop(vLines, vPairs, q, top, bottom, width, height, best) ==
    IF q > Len(vPairs) THEN best
    ELSE LET left  == vLines[vPairs[q][1]].position
             right == vLines[vPairs[q][2]].position
             cand  == [left |-> left, top |-> top, right |-> right, bottom |-> bottom]
             score == RectScore(cand, width, height)
         IN  IF TooNarrow(right - left, width)
             THEN InnerLoop(vLines, vPairs, q + 1, top, bottom, width, height, best)
             ELSE IF ScoreGreater(score, ScoreUlps(cand, width, height), best)
                  THEN InnerLoop(vLines, vPairs, q + 1, top, bottom, width, height,
                                 [rect |-> cand, score |-> score,
                                  ulps |-> ScoreUlps(cand, width, height)])
                  ELSE InnerLoop(vLines, vPairs, q + 1, top, bottom, width, height, best)

RECURSIVE OuterLoop(_, _, _, _, _, _, _, _)
OuterLoop(hLines, vLines, hPairs, vPairs, p, width, height, best) ==
    IF p > Len(hPairs) THEN best
    ELSE LET top    == hLines[hPairs[p][1]].position
             bottom == hLines[hPairs[p][2]].position
         IN  IF TooLow(bottom - top, height)
             THEN OuterLoop(hLines, vLines, hPairs, vPairs, p + 1, width, height, best)
             ELSE OuterLoop(hLines, vLines, hPairs, vPairs, p + 1, width, height,
                            InnerLoop(vLines, vPairs, 1, top, bottom,
                                      width, height, best))

findRectangleFromLines(hLines, vLines, width, height) ==
    IF Len(hLines) < 2 \/ Len(vLines) < 2 THEN Null
    ELSE OuterLoop(hLines, vLines,
                   PairsFrom(Len(hLines), 1, 2), PairsFrom(Len(vLines), 1, 2),
                   1, width, height,
                   [rect |-> Null, score |-> 0, ulps |-> 0]).rect

(***************************************************************************)
(* Scans with break: the first index in from..(end-1) going up, or in      *)
(* from..(stop+1) going down, whose entry of qual is TRUE; otherwise the   *)
(* initial value of the bound.                                             *)
(***************************************************************************)
FirstUp(qual, y, end, default) ==
    LET hits == {p \in y..(end - 1) : qual[p]}
    IN  IF hits = {} THEN default
        ELSE CHOOSE p \in hits : \A o \in hits : p <= o

FirstDown(qual, y, stop, default) ==
    LET hits == {p \in (stop + 1)..y : qual[p]}
    IN  IF hits = {} THEN default
        ELSE CHOOSE p \in hits : \A o \in hits : p >= o

(***************************************************************************)
(* findRectangleLowThreshold.  hDensity and vDensity are Float32Arrays:    *)
(* the stored value is count / n rounded to single precision and is        *)
(* compared with the doubles 0.15 and 0.1.  Single precision rounds 0.15   *)
(* and 0.1 upwards, so a density of exactly 0.15 (or 0.1) does compare     *)
(* greater: density > 0.15 is 20 * count >= 3 * n, density > 0.1 is        *)
(* 10 * count >= n.  windowSize = floor(height * 0.05) = height \div 20.   *)
(***************************************************************************)
Above15(count, n) == 20 * count >= 3 * n
Above10(count, n) == 10 * count >= n
Sustained(sustainedCount, windowSize) == 10 * sustainedCount > 3 * windowSize

CountIn(S) == Cardinality(S)

\* number of edge pixels in row y, and in column x between rows top and bottom
RowCount(edges, width, y) ==
    CountIn({x \in 0..(width - 1) : safeGet(edges, y * width + x) > 0})
ColCount(edges, width, x, top, bottom) ==
    CountIn({y \in top..bottom : safeGet(edges, y * width + x) > 0})

\* the test of the ascending scans at position p: the density at p is above
\* 0.15 and more than 30% of the window p..p+windowSize-1 is above 0.1
QualifiesUp(count, p, n, windowSize) ==
    /\ Above15(safeGet(count, p), n)
    /\ Sustained(CountIn({d \in 0..(windowSize - 1) :
                            Above10(safeGet(count, p + d), n)}),
                 windowSize)

\* the test of the descending scans: the window runs downwards from p and
\* stops above the bound already found
QualifiesDown(count, p, n, windowSize, found) ==
    /\ Above15(safeGet(count, p), n)
    /\ Sustained(CountIn({d \in 0..(windowSize - 1) :
                            /\ p - d > found
                            /\ Above10(safeGet(count, p - d), n)}),
                 windowSize)

\* bestLeft, bestTop, bestRight, bestBottom after the four scans
lowThresholdBounds(edges, width, height) ==
    LET windowSize == height \div 20
        hCount == [y \in 0..(height - 1) |-> RowCount(edges, width, y)]
        topQual == [y \in 0..(height - 1) |->
                      QualifiesUp(hCount, y, width, windowSize)]
        bestTop == FirstUp(topQual, 0, height - windowSize, 0)
        bottomQual == [y \in 0..(height - 1) |->
                         QualifiesDown(hCount, y, width, windowSize, bestTop)]
        bestBottom == FirstDown(bottomQual, height - 1, bestTop + windowSize, height - 1)
        band == bestBottom - bestTop + 1
        vCount == [x \in 0..(width - 1) |->
                     ColCount(edges, width, x, bestTop, bestBottom)]
        leftQual == [x \in 0..(width - 1) |->
                       QualifiesUp(vCount, x, band, windowSize)]
        bestLeft == FirstUp(leftQual, 0, width - windowSize, 0)
        rightQual == [x \in 0..(width - 1) |->
                        QualifiesDown(vCount, x, band, windowSize, bestLeft)]
        bestRight == FirstDown(rightQual, width - 1, bestLeft + windowSize, width - 1)
    IN  [left |-> bestLeft, top |-> bestTop,
         right |-> bestRight, bottom |-> bestBottom]

\* mutant: a rectangle of exactly 20% of the image is given up as well
TooSmallInclusive(extent, n) == 5 * extent <= n

\* rectWidth < width * 0.2, rectHeight < height * 0.2
TooSmall(extent, n) == 5 * extent < n

findRectangleLowThreshold(edges, width, height) ==
    LET best == lowThresholdBounds(edges, width, height)
        rectWidth  == best.right - best.left
        rectHeight == best.bottom - best.top
    IN  IF TooSmall(rectWidth, width) \/ TooSmall(rectHeight, height)
        THEN Null
        ELSE best

(***************************************************************************)
(* findRectangleDarkPixels: darkCount / n > 0.1 is 10 * darkCount > n.     *)
(***************************************************************************)
threshold == 200

\* mutant: exactly 10% dark pixels is enough
ManyDarkInclusive(darkCount, n) == 10 * darkCount >= n

ManyDark(darkCount, n) == 10 * darkCount > n

\* findRectangleDarkPixels giving up (null) when no row or column is dark
findRectangleDarkPixelsOrNull(gray, width, height) ==
    LET dark(i) == safeGet(gray, i) < threshold
        anyRow == \E y \in 0..(height - 1) :
                     10 * Cardinality({x \in 0..(width - 1) : dark(y * width + x)}) > width
    IN  IF anyRow
        THEN [left |-> 0, top |-> 0, right |-> width - 1, bottom |-> height - 1]
        ELSE Null

findRectangleDarkPixels(gray, width, height) ==
    LET rowDark == [y \in 0..(height - 1) |->
                      ManyDark(CountIn({x \in 0..(width - 1) :
                                  safeGet(gray, y * width + x) < threshold}), width)]
        colDark == [x \in 0..(width - 1) |->
                      ManyDark(CountIn({y \in 0..(height - 1) :
                                  safeGet(gray, y * width + x) < threshold}), height)]
    IN  [left   |-> FirstUp(colDark, 0, width, 0),
         top    |-> FirstUp(rowDark, 0, height, 0),
         right  |-> FirstDown(colDark, width - 1, -1, width - 1),
         bottom |-> FirstDown(rowDark, height - 1, -1, height - 1)]

(***************************************************************************)
(* squarifyRectangle                                                       *)
(***************************************************************************)
\* variant of squarifyRectangle rounding the centering offsets up
squarifyRectangleRoundUp(rect) ==
    LET width  == rect.right - rect.left
        height == rect.bottom - rect.top
        size   == Min(width, height)
    IN  [x |-> rect.left + ((width - size + 1) \div 2),
         y |-> rect.top + ((height - size + 1) \div 2),
         size |-> size]

squarifyRectangle(rect) ==
    LET width  == rect.right - rect.left
        height == rect.bottom - rect.top
        size   == Min(width, height)
        extraWidth  == width - size
        extraHeight == height - size
    IN  [x |-> rect.left + (extraWidth \div 2),
         y |-> rect.top + (extraHeight \div 2),
         size |-> size]

(***************************************************************************)
(* parseDigitFromText.  A text is a sequence of one-character strings.     *)
(* The result is Null or [digit |-> d].                                    *)
(***************************************************************************)
CORRECTIONS ==
    [c \in {"l", "I", "|", "i", "!", "Z", "z", "E", "A", "h", "S", "s", "G", "b",
            "T", "/", "?", ")", "]", "J", "j", "B", "g", "q", "0", "O", "o"} |->
        CASE c \in {"l", "I", "|", "i", "!"} -> 1
          [] c \in {"Z", "z"} -> 2
          [] c = "E" -> 3
          [] c \in {"A", "h"} -> 4
          [] c \in {"S", "s"} -> 5
          [] c \in {"G", "b"} -> 6
          [] c \in {"T", "/", "?", ")", "]", "J", "j"} -> 7
          [] c = "B" -> 8
          [] c \in {"g", "q", "0", "O", "o"} -> 9]

\* String.prototype.trim strips white space and line terminators
WhiteSpace == {" ", "\t", "\n", "\r"}

RECURSIVE TrimStart(_)
TrimStart(t) ==
    IF Len(t) > 0 /\ t[1] \in WhiteSpace THEN TrimStart(Tail(t)) ELSE t

RECURSIVE TrimEnd(_)
TrimEnd(t) ==
    IF Len(t) > 0 /\ t[Len(t)] \in WhiteSpace
    THEN TrimEnd(SubSeq(t, 1, Len(t) - 1))
    ELSE t

Trim(t) == TrimEnd(TrimStart(t))

\* parseInt(c, 10) on a one-character string; 0 stands for NaN, which the
\* callers never produce
parseInt(c) ==
    CASE c = "0" -> 0 [] c = "1" -> 1 [] c = "2" -> 2 [] c = "3" -> 3
      [] c = "4" -> 4 [] c = "5" -> 5 [] c = "6" -> 6 [] c = "7" -> 7
      [] c = "8" -> 8 [] c = "9" -> 9 [] OTHER -> 0

\* variant of IsDigit19 with the character class [0-9]
IsDigit09(c) == c \in {"0", "1", "2", "3", "4", "5", "6", "7", "8", "9"}

\* the character class [1-9]
IsDigit19(c) == c \in {"1", "2", "3", "4", "5", "6", "7", "8", "9"}

RECURSIVE MatchDigit(_, _)
\* cleanText.match(/[1-9]/): index of the leftmost match from i on, 0 if none
MatchDigit(t, i) ==
    IF i > Len(t) THEN 0
    ELSE IF IsDigit19(t[i]) THEN i
    ELSE MatchDigit(t, i + 1)

\* variant of ApplyCorrections returning the value of the last mapped character
ApplyCorrectionsLast(t, i) ==
    LET mapped == {j \in i..Len(t) : t[j] \in DOMAIN CORRECTIONS}
    IN  IF mapped = {} THEN Null
        ELSE [digit |-> CORRECTIONS[t[CHOOSE j \in mapped : \A k \in mapped : k <= j]]]

RECURSIVE ApplyCorrections(_, _)
\* the for..of loop over cleanText
ApplyCorrections(t, i) ==
    IF i > Len(t) THEN Null
    ELSE IF t[i] \in DOMAIN CORRECTIONS THEN [digit |-> CORRECTIONS[t[i]]]
    ELSE ApplyCorrections(t, i + 1)

\* variant of parseDigitFromText consulting the correction table before the
\* digit search
parseDigitFromTextCorrectionsFirst(text) ==
    LET cleanText == Trim(text)
        match     == MatchDigit(cleanText, 1)
        corrected == ApplyCorrections(cleanText, 1)
    IN  IF Len(cleanText) = 1 /\ IsDigit19(cleanText[1])
        THEN [digit |-> parseInt(cleanText[1])]
        ELSE IF corrected # Null
             THEN corrected
             ELSE IF match # 0
                  THEN [digit |-> parseInt(cleanText[match])]
                  ELSE Null

parseDigitFromText(text) ==
    LET cleanText == Trim(text)
        match     == MatchDigit(cleanText, 1)
    IN  IF Len(cleanText) = 1 /\ IsDigit19(cleanText[1])
        THEN [digit |-> parseInt(cleanText[1])]
        ELSE IF match # 0
             THEN [digit |-> parseInt(cleanText[match])]
             ELSE ApplyCorrections(cleanText, 1)

(***************************************************************************)
(* detectBoardRectangle, as the record of everything it computes:          *)
(* tried lists the strategies in the order they were evaluated.            *)
(***************************************************************************)
\* detectBoardRectangle trying the density strategy before the line strategy
detectBoardRectangleDensityFirst(imageData) ==
    LET width   == imageData.width
        height  == imageData.height
        gray    == toGrayscale(imageData)
        blurred == gaussianBlur(gray, width, height)
        edges   == cannyEdgeDetection(blurred, width, height)
        margin  == 3 * Min(width, height)
        hLines  == groupLines(findHorizontalLines(edges, width, height), margin)
        vLines  == groupLines(findVerticalLines(edges, width, height), margin)
        first   == findRectangleLowThreshold(edges, width, height)
        second  == IF first = Null
                   THEN findRectangleFromLines(hLines, vLines, width, height)
                   ELSE first
        third   == IF second = Null
                   THEN findRectangleDarkPixels(gray, width, height)
                   ELSE second
    IN  [gray |-> gray, blurred |-> blurred, edges |-> edges,
         hLines |-> hLines, vLines |-> vLines,
         tried |-> <<"density">>
                     \o (IF first = Null THEN <<"lines">> ELSE <<>>)
                     \o (IF second = Null THEN <<"dark">> ELSE <<>>),
         rectangle |-> third]

detectBoardRectangle(imageData) ==
    LET width   == imageData.width
        height  == imageData.height
        gray    == toGrayscale(imageData)
        blurred == gaussianBlur(gray, width, height)
        edges   == cannyEdgeDetection(blurred, width, height)
        margin  == 3 * Min(width, height)
        hLines  == groupLines(findHorizontalLines(edges, width, height), margin)
        vLines  == groupLines(findVerticalLines(edges, width, height), margin)
        first   == findRectangleFromLines(hLines, vLines, width, height)
        second  == IF first = Null
                   THEN findRectangleLowThreshold(edges, width, height)
                   ELSE first
        third   == IF second = Null
                   THEN findRectangleDarkPixels(gray, width, height)
                   ELSE second
    IN  [gray |-> gray, blurred |-> blurred, edges |-> edges,
         hLines |-> hLines, vLines |-> vLines,
         tried |-> <<"lines">>
                     \o (IF first = Null THEN <<"density">> ELSE <<>>)
                     \o (IF second = Null THEN <<"dark">> ELSE <<>>),
         rectangle |-> third]

(***************************************************************************)
(* Test images (the helpers of the board-detection tests).                 *)
(***************************************************************************)
createTestImageData(width, height, fillValue) ==
    [width |-> width, height |-> height,
     data |-> [i \in 0..(width * height - 1) |->
                  <<fillValue, fillValue, fillValue, 255>>]]

\* drawRectangle(imageData, rect, color, lineWidth): the RGB channels of the
\* pixels on the four border strips are set to color.
OnBorder(x, y, rect, lineWidth, width, height) ==
    \/ /\ x >= rect.left /\ x <= rect.right
       /\ \E lw \in 0..(lineWidth - 1) :
            \/ (y = rect.top + lw /\ rect.top + lw < height)
            \/ (y = rect.bottom - lw /\ rect.bottom - lw >= 0)
    \/ /\ y >= rect.top /\ y <= rect.bottom
       /\ \E lw \in 0..(lineWidth - 1) :
            \/ (x = rect.left + lw /\ rect.left + lw < width)
            \/ (x = rect.right - lw /\ rect.right - lw >= 0)

drawRectangle(imageData, rect, color, lineWidth) ==
    [imageData EXCEPT !.data =
        [i \in DOMAIN imageData.data |->
            IF OnBorder(i % imageData.width, i \div imageData.width, rect,
                        lineWidth, imageData.width, imageData.height)
            THEN <<color, color, color, imageData.data[i][4]>>
            ELSE imageData.data[i]]]

(***************************************************************************)
(* binarize.  The luma compared with the threshold is the double sum, not  *)
(* its floor: it is below an integer t when the exact value is below t, or *)
(* equals t and the double sum rounds down.                                *)
(***************************************************************************)
LumaBelow(r, g, b, t) ==
    LET exact == 299 * r + 587 * g + 114 * b
    IN  exact < 1000 * t \/ (exact = 1000 * t /\ LumaRoundsDown(r, g, b))

\* mutant: dark pixels become white and light pixels black
binarizeInverted(imageData, t) ==
    [imageData EXCEPT !.data =
        [i \in DOMAIN imageData.data |->
            LET p == imageData.data[i]
                val == IF LumaBelow(p[1], p[2], p[3], t) THEN 255 ELSE 0
            IN  <<val, val, val, p[4]>>]]

binarize(imageData, t) ==
    [imageData EXCEPT !.data =
        [i \in DOMAIN imageData.data |->
            LET p == imageData.data[i]
                val == IF LumaBelow(p[1], p[2], p[3], t) THEN 0 ELSE 255
            IN  <<val, val, val, p[4]>>]]

(***************************************************************************)
(* dilate: newData starts as a copy; only interior pixels are visited, and *)
(* the 3x3 window (the pixel itself included) is tested on the red channel *)
(* against 128.                                                            *)
(***************************************************************************)
hasBlackNeighbor(imageData, i) ==
    \E dy \in -1..1, dx \in -1..1 :
        safeGet(imageData.data, i + dy * imageData.width + dx)[1] < 128

dilate(imageData) ==
    [imageData EXCEPT !.data =
        [i \in DOMAIN imageData.data |->
            IF /\ IsInterior(i, imageData.width, imageData.height)
               /\ hasBlackNeighbor(imageData, i)
            THEN <<0, 0, 0, imageData.data[i][4]>>
            ELSE imageData.data[i]]]

(***************************************************************************)
(* isCellEmpty: stdDev = sqrt(sum((gray - mean)^2) / totalPixels) < 8 in   *)
(* doubles.  With L = 299r + 587g + 114b (the luma in thousandths) and     *)
(* n = totalPixels, the exact test is n * sum(L^2) - sum(L)^2 <            *)
(* 64 * 10^6 * n^2.  L is split as 1000 * q + m to keep the products in    *)
(* 32 bits.  The two sides differ by at least 1 unless they are equal,     *)
(* which is far more than the rounding error of the double evaluation, so  *)
(* the doubles decide as the exact values do except at equality.           *)
(***************************************************************************)
RECURSIVE SumRange(_, _, _)
SumRange(f, lo, hi) ==
    IF lo > hi THEN 0
    ELSE IF lo = hi THEN f[lo]
    ELSE SumRange(f, lo, (lo + hi) \div 2) + SumRange(f, ((lo + hi) \div 2) + 1, hi)

\* f[0] + ... + f[k]
SumUpTo(f, k) == SumRange(f, 0, k)

LumaThousandths(p) == 299 * p[1] + 587 * p[2] + 114 * p[3]

\* n * sum(L^2) - sum(L)^2 as <<hi, lo>> with value 10^6 * hi + lo, 0 <= lo < 10^6
SpreadTimesN2(imageData) ==
    LET data == imageData.data
        last == imageData.width * imageData.height - 1
        n == imageData.width * imageData.height
        q == [i \in 0..last |-> LumaThousandths(data[i]) \div 1000]
        m == [i \in 0..last |-> LumaThousandths(data[i]) % 1000]
        Q == SumUpTo(q, last)
        M == SumUpTo(m, last)
        qq == n * SumUpTo([i \in 0..last |-> q[i] * q[i]], last) - Q * Q
        qm == n * SumUpTo([i \in 0..last |-> q[i] * m[i]], last) - Q * M
        mm == n * SumUpTo([i \in 0..last |-> m[i] * m[i]], last) - M * M
        low == 2000 * (qm % 500) + mm
    IN  <<qq + (qm \div 500) + (low \div 1000000), low % 1000000>>

stdDevLimit == 8

\* At equality the double rounding of the lumas decides.  For buffers over
\* the gray levels of ChannelLevels (equality needs half the pixels at v and
\* half at v + 16) the computed stdDev is below 8 exactly when the brighter
\* level rounds down and the darker one does not: 112/128 gives
\* 7.999999999999993, 128/144 gives 8.000000000000007, 144/160 gives 8.
RoundsDownAt(imageData, level) ==
    \E i \in DOMAIN imageData.data :
        LET p == imageData.data[i]
        IN  LumaThousandths(p) = level /\ LumaRoundsDown(p[1], p[2], p[3])

TieBelow(imageData) ==
    LET lumas == {LumaThousandths(imageData.data[i]) : i \in DOMAIN imageData.data}
    IN  /\ RoundsDownAt(imageData, MaxOf(lumas))
        /\ ~RoundsDownAt(imageData, CHOOSE l \in lumas : \A k \in lumas : l <= k)

BelowLimit(spread, n, tie) ==
    \/ spread[1] < stdDevLimit * stdDevLimit * n * n
    \/ /\ spread[1] = stdDevLimit * stdDevLimit * n * n
       /\ spread[2] = 0
       /\ tie

isCellEmpty(imageData) ==
    BelowLimit(SpreadTimesN2(imageData), imageData.width * imageData.height,
               TieBelow(imageData))

(***************************************************************************)
(* enhanceContrast(imageData, factor), factor = num / den (1.5 is 3 / 2).  *)
(* avgBrightness is sum / n with sum in thousandths; each colour channel   *)
(* becomes Math.round(avg + (val - avg) * factor), clamped to 0..255;      *)
(* Math.round(v) is the floor of v + 0.5.                                  *)
(***************************************************************************)
Clamp(v) == Max(0, Min(255, v))

OCR_CONTRAST_FACTOR == [num |-> 3, den |-> 2]

enhanceContrast(imageData, factor) ==
    LET n   == imageData.width * imageData.height
        sum == SumUpTo([k \in 0..(n - 1) |-> LumaThousandths(imageData.data[k])],
                       n - 1)
        den == factor.den * 1000 * n
        newVal(val) == factor.num * val * 1000 * n - (factor.num - factor.den) * sum
        rounded(val) == Clamp((2 * newVal(val) + den) \div (2 * den))
    IN  [width |-> imageData.width, height |-> imageData.height,
         data |-> [i \in DOMAIN imageData.data |->
                     <<rounded(imageData.data[i][1]), rounded(imageData.data[i][2]),
                       rounded(imageData.data[i][3]), imageData.data[i][4]>>]]

(***************************************************************************)
(* preprocessForOCR: the gray levels are stretched to 0..255 and passed    *)
(* through Math.floor(255 * Math.pow(stretched / 255, 0.8)), tabulated in  *)
(* gammaCorrected (entry stretched + 1).                                   *)
(***************************************************************************)
gammaCorrected ==
    <<
      0, 3, 5, 7, 9, 10, 12, 14, 15, 17, 19, 20, 22, 23, 25, 26,
      27, 29, 30, 31, 33, 34, 35, 37, 38, 39, 41, 42, 43, 44, 46, 47,
      48, 49, 50, 52, 53, 54, 55, 56, 57, 59, 60, 61, 62, 63, 64, 65,
      67, 68, 69, 70, 71, 72, 73, 74, 75, 76, 77, 79, 80, 81, 82, 83,
      84, 85, 86, 87, 88, 89, 90, 91, 92, 93, 94, 95, 96, 97, 98, 99,
      100, 101, 102, 103, 104, 105, 106, 107, 108, 109, 110, 111, 112, 113, 114, 115,
      116, 117, 118, 119, 120, 121, 122, 123, 124, 125, 126, 127, 128, 129, 130, 131,
      132, 132, 133, 134, 135, 136, 137, 138, 139, 140, 141, 142, 143, 144, 145, 145,
      146, 147, 148, 149, 150, 151, 152, 153, 154, 155, 156, 156, 157, 158, 159, 160,
      161, 162, 163, 164, 165, 165, 166, 167, 168, 169, 170, 171, 172, 172, 173, 174,
      175, 176, 177, 178, 179, 180, 180, 181, 182, 183, 184, 185, 186, 186, 187, 188,
      189, 190, 191, 192, 192, 193, 194, 195, 196, 197, 198, 198, 199, 200, 201, 202,
      203, 204, 204, 205, 206, 207, 208, 209, 209, 210, 211, 212, 213, 214, 214, 215,
      216, 217, 218, 219, 219, 220, 221, 222, 223, 224, 224, 225, 226, 227, 228, 229,
      229, 230, 231, 232, 233, 233, 234, 235, 236, 237, 238, 238, 239, 240, 241, 242,
      242, 243, 244, 245, 246, 246, 247, 248, 249, 250, 250, 251, 252, 253, 254, 255
    >>

preprocessForOCR(imageData) ==
    LET numPixels == imageData.width * imageData.height
        grayAt(i) == Luma(imageData.data[i][1], imageData.data[i][2],
                          imageData.data[i][3])
        levels  == {grayAt(i) : i \in 0..(numPixels - 1)}
        minGray == IF levels = {} THEN 255
                   ELSE CHOOSE m \in levels : \A v \in levels : m <= v
        maxGray == MaxOf(levels)
        range   == IF maxGray - minGray = 0 THEN 1 ELSE maxGray - minGray
        stretched(i) == ((grayAt(i) - minGray) * 255) \div range
    IN  [width |-> imageData.width, height |-> imageData.height,
         data |-> [i \in DOMAIN imageData.data |->
                     <<gammaCorrected[stretched(i) + 1],
                       gammaCorrected[stretched(i) + 1],
                       gammaCorrected[stretched(i) + 1], imageData.data[i][4]>>]]

(***************************************************************************)
(* Storage.  Every stage writes its output into an array it has just       *)
(* created (new Uint8Array(...), new Uint8ClampedArray(...)).  heap is the *)
(* sequence of the arrays created so far, an array's reference is its      *)
(* index; Allocate gives the heap after the stage has filled its new       *)
(* array with value, and the reference of that array.                      *)
(***************************************************************************)
\* mutant: the stage writes its output over its input
AllocateInPlace(h, input, value) ==
    [heap |-> [h EXCEPT ![input] = value], ref |-> input]

Allocate(h, input, value) ==
    [heap |-> Append(h, value), ref |-> Len(h) + 1]

(***************************************************************************)
(* State                                                                   *)
(***************************************************************************)
VARIABLES
    pc,         \* phase of the run under test
    imageData,  \* the RGBA image handed to detectBoardRectangle
    drawn,      \* the rectangle drawn on imageData, Null if none
    gray,       \* intensity map
    blurred,    \* gaussianBlur output
    edges,      \* cannyEdgeDetection output
    hLines,     \* grouped horizontal lines
    vLines,     \* grouped vertical lines
    tried,      \* strategies evaluated, in order
    rectangle,  \* a Rectangle, Null before the call
    square,     \* squarifyRectangle output
    text,       \* recognized text handed to parseDigitFromText
    digit,      \* parseDigitFromText output
    binarizeThreshold,  \* the threshold handed to binarize
    result,     \* output of the pixel operation under test
    second,     \* output of applying binarize to result again
    heap,       \* the arrays created so far; heap[1] is the stage's input
    returned,   \* reference of the array the stage returned, 0 if none
    cells,      \* recognizeCells: the cell images
    minConfidence,   \* recognizeCells: acceptance limit
    engine,     \* what worker.recognize answers, per cell and rendering
    cellIndex,  \* recognizeCells: loop index i
    results,    \* recognizeCells: results pushed so far
    calls,      \* isCellEmpty and worker.recognize calls, in order
    finalConfidence, \* recognizeCells: local of the current iteration
    finalText,  \* recognizeCells: local of the current iteration
    ocrResult,  \* extractSudokuFromImage: resolved value
    cfg,        \* extractSudokuFromImage: configuration, Null without callback
    events      \* what the onProgress callback has received, in order

pixelVars == <<binarizeThreshold, result, second, heap, returned>>
cellVars == <<cells, minConfidence, engine, cellIndex, results, calls, finalConfidence,
              finalText, ocrResult, cfg, events>>

vars == <<pc, imageData, drawn, gray, blurred, edges, hLines, vLines, tried,
          rectangle, square, text, digit, pixelVars, cellVars>>

NoImage == imageData = Null /\ drawn = Null
NoMaps == gray = <<>> /\ blurred = <<>> /\ edges = <<>>
NoLines == hLines = <<>> /\ vLines = <<>> /\ tried = <<>>
NoText == text = <<>> /\ digit = Null
NoPixels == binarizeThreshold = Null /\ result = Null /\ second = Null /\ returned = 0
NoCells ==
    /\ cells = <<>> /\ minConfidence = 0 /\ engine = <<>> /\ cellIndex = 0
    /\ results = <<>> /\ calls = <<>> /\ finalConfidence = 0 /\ finalText = <<>>
    /\ ocrResult = Null
    /\ cfg = Null /\ events = <<>>

(***************************************************************************)
(* Board detection on test images: every blank image with sides in         *)
(* 1..MaxSmall or MidDim over Levels, one board-sized blank image per      *)
(* level of BoardLevels, and each of them with one rectangle drawn on it.  *)
(***************************************************************************)
MaxSmall == 3
MidDim == 5
BoardDim == 40
Levels == {0, 128, 200, 255}
BoardLevels == {0, 255}

Shapes ==
    {<<w, h>> : w \in (1..MaxSmall) \cup {MidDim}, h \in (1..MaxSmall) \cup {MidDim}}
        \cup {<<BoardDim, BoardDim>>}

LevelsFor(n) == IF n >= BoardDim THEN BoardLevels ELSE Levels

\* <<low, high>> coordinate pairs of the rectangles drawn along a side of n pixels
Spans(n) ==
    IF n >= BoardDim
    THEN {<<o, o + s>> : o \in {n \div 8, n \div 4},
                         s \in {n \div 8, n \div 2, (7 * n) \div 10}}
    ELSE {<<lo, hi>> \in (0..(n - 1)) \X (0..(n - 1)) : lo < hi}

InitDetect ==
    /\ pc = "created"
    /\ \E s \in Shapes : \E fill \in LevelsFor(s[1]) :
          imageData = createTestImageData(s[1], s[2], fill)
    /\ drawn = Null
    /\ heap = <<imageData.data>>
    /\ NoMaps /\ NoLines /\ NoText /\ NoPixels /\ NoCells
    /\ rectangle = Null /\ square = Null

DrawRectangle ==
    /\ pc = "created"
    /\ \E h \in Spans(imageData.width), v \in Spans(imageData.height),
          color \in LevelsFor(imageData.width) :
          /\ color # imageData.data[0][1]
          /\ drawn' = [left |-> h[1], top |-> v[1], right |-> h[2], bottom |-> v[2],
                      color |-> color, fill |-> imageData.data[0][1]]
          /\ imageData' = drawRectangle(imageData, drawn', color, 2)
    /\ heap' = <<imageData'.data>>
    /\ pc' = "drawn"
    /\ UNCHANGED <<gray, blurred, edges, hLines, vLines, tried, rectangle,
                   square, text, digit, binarizeThreshold, result, second,
                   returned, cellVars>>

DetectBoardRectangle ==
    /\ pc \in {"created", "drawn"}
    /\ \E d \in {detectBoardRectangle(imageData)} :
          /\ gray' = d.gray
          /\ blurred' = d.blurred
          /\ edges' = d.edges
          /\ hLines' = d.hLines
          /\ vLines' = d.vLines
          /\ tried' = d.tried
          /\ rectangle' = d.rectangle
          /\ \E g \in {Allocate(heap, 1, d.gray)} :
                \E b \in {Allocate(g.heap, g.ref, d.blurred)} :
                   heap' = Allocate(b.heap, b.ref, d.edges).heap
    /\ returned' = 0
    /\ pc' = "detected"
    /\ UNCHANGED <<imageData, drawn, square, text, digit, binarizeThreshold,
                   result, second, cellVars>>

NextDetect == DrawRectangle \/ DetectBoardRectangle

SpecDetect == InitDetect /\ [][NextDetect]_vars

(***************************************************************************)
(* The filters and the exported dark-pixel locator on intensity maps: a    *)
(* map is a uniform background with at most two pixels of another level.   *)
(***************************************************************************)
MaxMapDim == 4
SpotSets(n) == {{}} \cup {{a, b} : a \in 0..(n - 1), b \in 0..(n - 1)}

\* a side of WideDim pixels makes one dark pixel exactly 10% of a row
WideDim == 10
MapShapes ==
    ((1..MaxMapDim) \X (1..MaxMapDim))
        \cup {<<WideDim, 2>>, <<2, WideDim>>}

InitFilter ==
    /\ pc = "map"
    /\ \E shape \in MapShapes, bg \in Levels, fg \in {0, 255} :
          \E w \in {shape[1]}, h \in {shape[2]}, S \in SpotSets(shape[1] * shape[2]) :
             /\ fg # bg
             /\ imageData = [width |-> w, height |-> h]
             /\ gray = [i \in 0..(w * h - 1) |-> IF i \in S THEN fg ELSE bg]
    /\ drawn = Null
    /\ heap = <<gray>>
    /\ blurred = <<>> /\ edges = <<>>
    /\ NoLines /\ NoText /\ NoPixels /\ NoCells
    /\ rectangle = Null /\ square = Null

GaussianBlur ==
    /\ pc = "map"
    /\ blurred' = gaussianBlur(gray, imageData.width, imageData.height)
    /\ \E a \in {Allocate(heap, 1, blurred')} :
          heap' = a.heap /\ returned' = a.ref
    /\ pc' = "blurred"
    /\ UNCHANGED <<imageData, drawn, gray, edges, hLines, vLines, tried,
                   rectangle, square, text, digit, binarizeThreshold, result,
                   second, cellVars>>

CannyEdgeDetection ==
    /\ pc = "map"
    /\ edges' = cannyEdgeDetection(gray, imageData.width, imageData.height)
    /\ \E a \in {Allocate(heap, 1, edges')} :
          heap' = a.heap /\ returned' = a.ref
    /\ pc' = "edged"
    /\ UNCHANGED <<imageData, drawn, gray, blurred, hLines, vLines, tried,
                   rectangle, square, text, digit, binarizeThreshold, result,
                   second, cellVars>>

FindRectangleDarkPixels ==
    /\ pc = "map"
    /\ rectangle' = findRectangleDarkPixels(gray, imageData.width, imageData.height)
    /\ pc' = "located"
    /\ UNCHANGED <<imageData, drawn, gray, blurred, edges, hLines, vLines, tried,
                   square, text, digit, pixelVars,
                   cellVars>>

NextFilter == GaussianBlur \/ CannyEdgeDetection \/ FindRectangleDarkPixels

SpecFilter == InitFilter /\ [][NextFilter]_vars

(***************************************************************************)
(* The line scans, groupLines and the two edge-based strategies.  A run    *)
(* starts from an edge map with sides in 1..MaxEdgeDim, or from the lines  *)
(* of a scan of a LineDims image: up to MaxLines lines per axis at         *)
(* positions of LinePositions, with strengths that are all equal, rising   *)
(* or falling along the axis.  The density strategy is also applied to     *)
(* maps of BandDims whose edge pixels fill a band of rows between two      *)
(* columns (pc = "band").                                                  *)
(***************************************************************************)
MaxEdgeDim == 3
MaxLines == 3

LineDims == {<<100, 100>>, <<100, 60>>}
LinePositions(n) == {0, 2, 3, n \div 3, (n \div 3) + 2, n - 1}

StrengthNum(pattern, k, extent) ==
    IF pattern = "rising" THEN (extent \div 2) + k
    ELSE IF pattern = "falling" THEN extent - k
    ELSE extent \div 2

\* the lines a scan of extent pixels pushes for the positions of S
LinesAt(S, pattern, extent) ==
    [k \in 1..Cardinality(S) |->
        [position |-> CHOOSE p \in S : Cardinality({q \in S : q < p}) = k - 1,
         strength |-> [num |-> StrengthNum(pattern, k, extent), den |-> extent]]]

BandDims == {<<20, 20>>, <<20, 80>>}

BandMap(w, h, rows, left, right) ==
    [i \in 0..(w * h - 1) |->
        IF (i \div w) \in rows /\ left <= i % w /\ i % w <= right THEN 255 ELSE 0]

BandMaps(w, h) ==
    {BandMap(w, h, a..b, left, right) :
        a \in {0, 2, h \div 2}, b \in {2, 3, (h \div 2) + 1, h - 1},
        left \in {0, 3, w - 3}, right \in {3, 5, 7, w - 3, w - 1}}

InitLines ==
    /\ \/ /\ pc = "edges"
          /\ \E w \in 1..MaxEdgeDim, h \in 1..MaxEdgeDim :
                /\ w * h <= 3 * MaxEdgeDim
                /\ imageData = [width |-> w, height |-> h]
                /\ edges \in [0..(w * h - 1) -> {0, 255}]
          /\ hLines = <<>> /\ vLines = <<>>
       \/ /\ pc = "band"
          /\ \E d \in BandDims :
                /\ imageData = [width |-> d[1], height |-> d[2]]
                /\ edges \in BandMaps(d[1], d[2])
          /\ hLines = <<>> /\ vLines = <<>>
       \/ /\ pc = "lines"
          /\ \E d \in LineDims, pattern \in {"flat", "rising", "falling"} :
                \E H \in SUBSET LinePositions(d[2]), V \in SUBSET LinePositions(d[1]) :
                   /\ Cardinality(H) <= MaxLines
                   /\ Cardinality(V) <= MaxLines
                   /\ imageData = [width |-> d[1], height |-> d[2]]
                   /\ hLines = LinesAt(H, pattern, d[1])
                   /\ vLines = LinesAt(V, pattern, d[2])
          /\ edges = <<>>
    /\ drawn = Null
    /\ gray = <<>> /\ blurred = <<>> /\ tried = <<>>
    /\ NoText /\ NoPixels /\ NoCells
    /\ heap = <<>>
    /\ rectangle = Null /\ square = Null

\* findHorizontalLines(edges, width, height), findVerticalLines(edges, width, height)
FindLines ==
    /\ pc = "edges"
    /\ hLines' = findHorizontalLines(edges, imageData.width, imageData.height)
    /\ vLines' = findVerticalLines(edges, imageData.width, imageData.height)
    /\ pc' = "lines"
    /\ UNCHANGED <<imageData, drawn, gray, blurred, edges, tried, rectangle,
                   square, text, digit, pixelVars, cellVars>>

\* groupLines(..., margin) with margin = Math.min(width, height) * 0.03
GroupLines ==
    /\ pc = "lines"
    /\ hLines' = groupLines(hLines, 3 * Min(imageData.width, imageData.height))
    /\ vLines' = groupLines(vLines, 3 * Min(imageData.width, imageData.height))
    /\ pc' = "grouped"
    /\ UNCHANGED <<imageData, drawn, gray, blurred, edges, tried, rectangle,
                   square, text, digit, pixelVars, cellVars>>

FindRectangleFromLines ==
    /\ pc = "grouped"
    /\ rectangle' = findRectangleFromLines(hLines, vLines,
                                           imageData.width, imageData.height)
    /\ pc' = "found"
    /\ UNCHANGED <<imageData, drawn, gray, blurred, edges, hLines, vLines, tried,
                   square, text, digit, pixelVars, cellVars>>

FindRectangleLowThreshold ==
    /\ pc \in {"edges", "band"}
    /\ rectangle' = findRectangleLowThreshold(edges, imageData.width,
                                              imageData.height)
    /\ pc' = "fallback"
    /\ UNCHANGED <<imageData, drawn, gray, blurred, edges, hLines, vLines, tried,
                   square, text, digit, pixelVars, cellVars>>

NextLines ==
    FindLines \/ GroupLines \/ FindRectangleFromLines \/ FindRectangleLowThreshold

SpecLines == InitLines /\ [][NextLines]_vars

(***************************************************************************)
(* squarifyRectangle on rectangles with right > left and bottom > top.     *)
(***************************************************************************)
MaxCoord == 6
Coords == (0..MaxCoord) \cup {10, 100, 110, 200}

InitSquare ==
    /\ pc = "rect"
    /\ \E l \in Coords, t \in Coords, r \in Coords, b \in Coords :
          /\ r > l /\ b > t
          /\ rectangle = [left |-> l, top |-> t, right |-> r, bottom |-> b]
    /\ square = Null
    /\ NoImage /\ NoMaps /\ NoLines /\ NoText /\ NoPixels /\ NoCells
    /\ heap = <<>>

SquarifyRectangle ==
    /\ pc = "rect"
    /\ square' = squarifyRectangle(rectangle)
    /\ pc' = "squared"
    /\ UNCHANGED <<imageData, drawn, gray, blurred, edges, hLines, vLines, tried,
                   rectangle, text, digit, pixelVars,
                   cellVars>>

NextSquare == SquarifyRectangle

SpecSquare == InitSquare /\ [][NextSquare]_vars

(***************************************************************************)
(* parseDigitFromText on every text of at most MaxLen characters over      *)
(* Alphabet, and on the texts of the unit tests.                           *)
(***************************************************************************)
MaxLen == 3
Alphabet == {"1", "5", "9", "0", "l", "O", ")", "@", " "}

RECURSIVE TextsOfLen(_)
TextsOfLen(n) ==
    IF n = 0 THEN {<<>>}
    ELSE {Append(t, c) : t \in TextsOfLen(n - 1), c \in Alphabet}

TestTexts ==
    {<<"@", "#", "$", "%", "^", "&", "*", "(", ")">>,
     <<"@", "#", "$", "%", "^", "&", "*", "(">>,
     <<"a", "b", "c", "5", "d", "e", "f">>,
     <<"-", "-", "3", "-", "-">>,
     <<"\n", "3", "\n">>, <<"\t", "7", "\t">>,
     <<" ", " ", "5", " ", " ">>, <<" ", " ", " ">>}
        \cup {<<c>> : c \in DOMAIN CORRECTIONS}
        \cup {<<c>> : c \in {"1", "2", "3", "4", "5", "6", "7", "8", "9"}}

Texts == UNION {TextsOfLen(n) : n \in 0..MaxLen} \cup TestTexts

InitParse ==
    /\ pc = "text"
    /\ text \in Texts
    /\ digit = Null
    /\ NoImage /\ NoMaps /\ NoLines /\ NoPixels /\ NoCells
    /\ heap = <<>>
    /\ rectangle = Null /\ square = Null

ParseDigitFromText ==
    /\ pc = "text"
    /\ digit' = parseDigitFromText(text)
    /\ pc' = "parsed"
    /\ UNCHANGED <<imageData, drawn, gray, blurred, edges, hLines, vLines, tried,
                   rectangle, square, text, pixelVars,
                   cellVars>>

NextParse == ParseDigitFromText

SpecParse == InitParse /\ [][NextParse]_vars

(***************************************************************************)
(* The RGBA operations (toGrayscale, binarize, dilate, isCellEmpty) on     *)
(* buffers with sides in 1..MaxPixDim: a background pixel with at most two *)
(* pixels of another value, and two-pixel checkerboards.                   *)
(***************************************************************************)
MaxPixDim == 3

Pixels ==
    {<<255, 255, 255, 255>>, <<0, 0, 0, 255>>, <<255, 0, 0, 255>>,
     <<0, 255, 255, 255>>, <<100, 200, 50, 255>>, <<100, 100, 100, 128>>,
     <<200, 200, 200, 128>>, <<112, 112, 112, 255>>, <<128, 128, 128, 255>>,
     <<144, 144, 144, 0>>, <<160, 160, 160, 255>>}

Thresholds == {128, 160}

Spotted(w, h, bg, fg, S) ==
    [width |-> w, height |-> h,
     data |-> [i \in 0..(w * h - 1) |-> IF i \in S THEN fg ELSE bg]]

Checkerboard(w, h, even, odd) ==
    [width |-> w, height |-> h,
     data |-> [i \in 0..(w * h - 1) |->
                  IF ((i % w) + (i \div w)) % 2 = 0 THEN even ELSE odd]]

InitPixels ==
    /\ pc = "buffer"
    /\ \E w \in 1..MaxPixDim, h \in 1..MaxPixDim, bg \in Pixels, fg \in Pixels :
          \/ \E S \in SpotSets(w * h) : imageData = Spotted(w, h, bg, fg, S)
          \/ imageData = Checkerboard(w, h, bg, fg)
    /\ drawn = Null
    /\ heap = <<imageData.data>>
    /\ NoMaps /\ NoLines /\ NoText /\ NoPixels /\ NoCells
    /\ rectangle = Null /\ square = Null

ToGrayscale ==
    /\ pc = "buffer"
    /\ gray' = toGrayscale(imageData)
    /\ \E a \in {Allocate(heap, 1, gray')} :
          heap' = a.heap /\ returned' = a.ref
    /\ pc' = "grayscale"
    /\ UNCHANGED <<imageData, drawn, blurred, edges, hLines, vLines, tried,
                   rectangle, square, text, digit, binarizeThreshold, result,
                   second, cellVars>>

Binarize ==
    /\ pc = "buffer"
    /\ \E t \in Thresholds :
          /\ binarizeThreshold' = t
          /\ result' = binarize(imageData, t)
    /\ \E a \in {Allocate(heap, 1, result'.data)} :
          heap' = a.heap /\ returned' = a.ref
    /\ pc' = "binarized"
    /\ UNCHANGED <<imageData, drawn, gray, blurred, edges, hLines, vLines, tried,
                   rectangle, square, text, digit, second,
                   cellVars>>

BinarizeAgain ==
    /\ pc = "binarized"
    /\ second' = binarize(result, binarizeThreshold)
    /\ \E a \in {Allocate(heap, returned, second'.data)} :
          heap' = a.heap /\ returned' = a.ref
    /\ pc' = "rebinarized"
    /\ UNCHANGED <<imageData, drawn, gray, blurred, edges, hLines, vLines, tried,
                   rectangle, square, text, digit, binarizeThreshold, result,
                   cellVars>>

Dilate ==
    /\ pc = "buffer"
    /\ result' = dilate(imageData)
    /\ \E a \in {Allocate(heap, 1, result'.data)} :
          heap' = a.heap /\ returned' = a.ref
    /\ pc' = "dilated"
    /\ UNCHANGED <<imageData, drawn, gray, blurred, edges, hLines, vLines, tried,
                   rectangle, square, text, digit, binarizeThreshold, second,
                   cellVars>>

IsCellEmpty ==
    /\ pc = "buffer"
    /\ result' = isCellEmpty(imageData)
    /\ pc' = "classified"
    /\ UNCHANGED <<imageData, drawn, gray, blurred, edges, hLines, vLines, tried,
                   rectangle, square, text, digit, binarizeThreshold, second,
                   heap, returned, cellVars>>

\* enhanceContrast(imageData, OCR_CONTRAST_FACTOR), as processForOCR calls it
EnhanceContrast ==
    /\ pc = "buffer"
    /\ result' = enhanceContrast(imageData, OCR_CONTRAST_FACTOR)
    /\ \E a \in {Allocate(heap, 1, result'.data)} :
          heap' = a.heap /\ returned' = a.ref
    /\ pc' = "enhanced"
    /\ UNCHANGED <<imageData, drawn, gray, blurred, edges, hLines, vLines, tried,
                   rectangle, square, text, digit, binarizeThreshold, second,
                   cellVars>>

PreprocessForOCR ==
    /\ pc = "buffer"
    /\ result' = preprocessForOCR(imageData)
    /\ \E a \in {Allocate(heap, 1, result'.data)} :
          heap' = a.heap /\ returned' = a.ref
    /\ pc' = "preprocessed"
    /\ UNCHANGED <<imageData, drawn, gray, blurred, edges, hLines, vLines, tried,
                   rectangle, square, text, digit, binarizeThreshold, second,
                   cellVars>>

NextPixels ==
    \/ ToGrayscale \/ Binarize \/ BinarizeAgain \/ Dilate \/ IsCellEmpty
    \/ EnhanceContrast \/ PreprocessForOCR

SpecPixels == InitPixels /\ [][NextPixels]_vars

(***************************************************************************)
(* All stages together: the RGBA operations on buffers, the filters on     *)
(* intensity maps and detectBoardRectangle on test images.                 *)
(***************************************************************************)
InitStages == InitPixels \/ InitFilter \/ InitDetect

NextStages == NextPixels \/ NextFilter \/ NextDetect

SpecStages == InitStages /\ [][NextStages]_vars

(***************************************************************************)
(* recognizeCells.  The loop is cut at its awaits: CheckCell runs an       *)
(* iteration up to the first worker.recognize call (or to its end, for an  *)
(* empty cell), Recognize and RecognizeDilated run from the resolution of  *)
(* one recognize call to the next call or to the end of the iteration.     *)
(* engine[k] holds the answers worker.recognize can give for cell k - 1:   *)
(* Throw (a rejected promise, or data.text.trim() throwing) or a record    *)
(* of the raw text and the confidence; Null stands for a missing           *)
(* confidence.  createWorker, setParameters and terminate are entered in   *)
(* calls as well.  A call of the adapter outside the try block that fails  *)
(* (getImageData, or createCanvas, putImageData, drawImage inside          *)
(* processForOCR) rejects the promise of recognizeCells, and so does a     *)
(* failing setParameters.  onProgress is present when cfg is set: it is    *)
(* the callback of extractSudokuFromImage.                                 *)
(***************************************************************************)
Throw == [throws |-> TRUE]

\* data.confidence || 0
OrZero(confidence) == IF confidence = Null THEN 0 ELSE confidence.value

\* mutant: the confidence is not consulted
AcceptedAnyConfidence(parsedDigit, confidence, limit) == parsedDigit # Null

\* parsedDigit !== null && confidence >= minConfidence
Accepted(parsedDigit, confidence, limit) ==
    parsedDigit # Null /\ confidence >= limit

\* mutant: an empty cell is handed on to recognition
SkipsRecognitionNever(cellImageData) == FALSE

\* if (isCellEmpty(cellImageData)) { ...; continue; }
SkipsRecognition(cellImageData) == isCellEmpty(cellImageData)

\* mutant: the dilated attempt is made whatever the first one gave
NeedsRetryAlways(d) == TRUE

\* if (digit === null)
NeedsRetry(d) == d = Null

CellResult(index, d, confidence, t) ==
    [index |-> index, row |-> index \div 9, column |-> index % 9,
     digit |-> d, confidence |-> confidence, text |-> t]

Call(op, index, useDilation) == [op |-> op, cell |-> index, dilated |-> useDilation]

Event(status, num, den, words, number) ==
    [status |-> status, progress |-> [num |-> num, den |-> den],
     message |-> [text |-> words, cell |-> number]]

\* Math.floor((cellProgress * 81) / 100) + 1 for cellProgress = ((i + 1) / 81)
\* * 100: the doubles give (cellProgress * 81) / 100 = i + 1 except for the
\* cells of roundsBelow, where the quotient falls just below i + 1
roundsBelow ==
    {2, 5, 11, 16, 18, 23, 26, 30, 33, 34, 37, 38, 47, 53, 61, 67, 69, 75, 77}

CellNumber(i) == IF i \in roundsBelow THEN i + 1 ELSE i + 2

\* mutant: the cells take the whole range up to 100
CellProgressEventFull(i, n) ==
    Event("recognizing", 20 * n + 80 * (i + 1), n, "Recognizing cell", CellNumber(i))

\* the callback of extractSudokuFromImage applied to cellProgress =
\* ((i + 1) / n) * 100: overallProgress = 20 + cellProgress * 0.75 (the
\* doubles keep the order of these fractions, and the last one is 95)
CellProgressEvent(i, n) ==
    Event("recognizing", 20 * n + 75 * (i + 1), n, "Recognizing cell", CellNumber(i))

\* results.push(...), onProgress?.(...) and the end of the iteration
Push(d, confidence, t) ==
    /\ results' = Append(results, CellResult(cellIndex, d, confidence, t))
    /\ events' = IF cfg = Null THEN events
                 ELSE Append(events, CellProgressEvent(cellIndex, Len(cells)))
    /\ cellIndex' = cellIndex + 1
    /\ digit' = Null /\ finalConfidence' = 0 /\ finalText' = <<>>
    /\ pc' = "loop"

\* the variables a step of recognizeCells outside its loop leaves alone
LoopVars ==
    <<imageData, drawn, gray, blurred, edges, hLines, vLines, tried, rectangle,
      square, text, digit, pixelVars, cells, minConfidence, engine, cellIndex,
      results, finalConfidence, finalText, ocrResult, cfg, events>>

\* const worker = await tesseract.createWorker('eng', 1, ...)
CreateWorker ==
    /\ pc = "call"
    /\ calls' = Append(calls, Call("createWorker", 0, FALSE))
    /\ pc' = "worker"
    /\ UNCHANGED LoopVars

\* await worker.setParameters(...)
SetParameters ==
    /\ pc = "worker"
    /\ calls' = Append(calls, Call("setParameters", 0, FALSE))
    /\ pc' = "loop"
    /\ UNCHANGED LoopVars

\* await worker.setParameters(...) with a promise that is rejected
SetParametersFails ==
    /\ pc = "worker"
    /\ calls' = Append(calls, Call("setParameters", 0, FALSE))
    /\ pc' = "rejected"
    /\ UNCHANGED LoopVars

\* adapter.getImageData(cell, ...) or processForOCR(adapter, cell) throws
AdapterFails ==
    /\ pc = "loop"
    /\ cellIndex < Len(cells)
    /\ cells[cellIndex + 1] # Null
    /\ calls' = Append(calls, Call("getImageData", cellIndex, FALSE))
    /\ pc' = "rejected"
    /\ UNCHANGED LoopVars

CheckCell ==
    /\ pc = "loop"
    /\ cellIndex < Len(cells)
    /\ IF cells[cellIndex + 1] = Null
       THEN /\ cellIndex' = cellIndex + 1
            /\ UNCHANGED <<pc, results, calls, digit, finalConfidence, finalText,
                           events>>
       ELSE /\ calls' = Append(calls, Call("isCellEmpty", cellIndex, FALSE))
            /\ IF SkipsRecognition(cells[cellIndex + 1])
               THEN Push(Null, 100, <<>>)
               ELSE /\ digit' = Null /\ finalConfidence' = 0 /\ finalText' = <<>>
                    /\ pc' = "recognize"
                    /\ UNCHANGED <<cellIndex, results, events>>
    /\ UNCHANGED <<imageData, drawn, gray, blurred, edges, hLines, vLines, tried,
                   rectangle, square, text, pixelVars, cells, minConfidence,
                   engine, ocrResult, cfg>>

Recognize ==
    /\ pc = "recognize"
    /\ calls' = Append(calls, Call("recognize", cellIndex, FALSE))
    /\ \E answer \in engine[cellIndex + 1].normal :
          IF answer = Throw
          THEN Push(digit, finalConfidence, finalText)
          ELSE \E t \in {Trim(answer.text)}, confidence \in {OrZero(answer.confidence)} :
                \E parsedDigit \in {parseDigitFromText(t)} :
                  \E d \in {IF Accepted(parsedDigit, confidence, minConfidence)
                            THEN parsedDigit ELSE Null} :
                     IF NeedsRetry(d)
                     THEN /\ digit' = d
                          /\ finalText' = t
                          /\ finalConfidence' = confidence
                          /\ pc' = "retry"
                          /\ UNCHANGED <<cellIndex, results, events>>
                     ELSE Push(d, confidence, t)
    /\ UNCHANGED <<imageData, drawn, gray, blurred, edges, hLines, vLines, tried,
                   rectangle, square, text, pixelVars, cells, minConfidence,
                   engine, ocrResult, cfg>>

RecognizeDilated ==
    /\ pc = "retry"
    /\ calls' = Append(calls, Call("recognize", cellIndex, TRUE))
    /\ \E answer \in engine[cellIndex + 1].dilated :
          IF answer = Throw
          THEN Push(digit, finalConfidence, finalText)
          ELSE \E dilatedText \in {Trim(answer.text)},
                  dilatedConfidence \in {OrZero(answer.confidence)} :
                \E dilatedDigit \in {parseDigitFromText(dilatedText)} :
                  IF Accepted(dilatedDigit, dilatedConfidence, minConfidence)
                  THEN Push(dilatedDigit, dilatedConfidence, dilatedText)
                  ELSE Push(digit, finalConfidence, finalText)
    /\ UNCHANGED <<imageData, drawn, gray, blurred, edges, hLines, vLines, tried,
                   rectangle, square, text, pixelVars, cells, minConfidence,
                   engine, ocrResult, cfg>>

\* await worker.terminate(); return results
Terminate ==
    /\ pc = "loop"
    /\ cellIndex = Len(cells)
    /\ calls' = Append(calls, Call("terminate", 0, FALSE))
    /\ pc' = "returned"
    /\ UNCHANGED LoopVars

(***************************************************************************)
(* recognizeCells on up to MaxCells cells, each blank, inked or faint,     *)
(* with an engine that may give any answer of Answers to every call.       *)
(***************************************************************************)
MaxCells == 2

Blank == Spotted(2, 2, <<255, 255, 255, 255>>, <<255, 255, 255, 255>>, {})
Inked == Checkerboard(2, 2, <<255, 255, 255, 255>>, <<0, 0, 0, 255>>)
Faint == Checkerboard(2, 2, <<112, 112, 112, 255>>, <<128, 128, 128, 255>>)

Answers ==
    {Throw} \cup
    {[text |-> t, confidence |-> c] :
        t \in {<<"5", "\n">>, <<"l">>, <<"x">>},
        c \in {Null, [value |-> 50], [value |-> 95]}}

InitRecognize ==
    /\ pc = "call"
    /\ \E n \in 1..MaxCells : cells \in [1..n -> {Blank, Inked, Faint}]
    /\ minConfidence \in {1, 60}
    /\ engine = [k \in 1..Len(cells) |-> [normal |-> Answers, dilated |-> Answers]]
    /\ cellIndex = 0 /\ results = <<>> /\ calls = <<>>
    /\ finalConfidence = 0 /\ finalText = <<>> /\ ocrResult = Null
    /\ cfg = Null /\ events = <<>>
    /\ NoImage /\ NoMaps /\ NoLines /\ NoText /\ NoPixels
    /\ heap = <<>>
    /\ rectangle = Null /\ square = Null

NextRecognize ==
    \/ CreateWorker \/ SetParameters \/ SetParametersFails \/ AdapterFails
    \/ CheckCell \/ Recognize \/ RecognizeDilated \/ Terminate

SpecRecognize == InitRecognize /\ [][NextRecognize]_vars

(***************************************************************************)
(* extractSudokuFromImage with preprocess unset, with and without         *)
(* skipBoardDetection.  The image has 2 x 2 pixels per cell.  With         *)
(* detection the square found is copied to a canvas of its own, pixel by   *)
(* pixel; what lies outside the source stays transparent.  extractCells    *)
(* yields one canvas per (row, col) of the 9 x 9 grid, modelled as 2 x 2   *)
(* samples of that cell's block of the canvas (the margin and the          *)
(* interpolation of adapter.drawImage are left out of the content; the     *)
(* geometry of the crop is cellCrops below).  The engine answers cell k    *)
(* by the entry k + offset (mod 7) of Scenarios, so that accepted,         *)
(* retried, rejected and throwing cells are mixed over the board.          *)
(***************************************************************************)
GridSize == 9

\* the pixel of a canvas at (x, y), transparent where nothing was drawn
CanvasPixel(canvas, x, y) ==
    IF 0 <= x /\ x < canvas.width /\ 0 <= y /\ y < canvas.height
    THEN canvas.data[y * canvas.width + x]
    ELSE <<0, 0, 0, 0>>

\* croppedCanvas = adapter.createCanvas(size, size) and
\* adapter.drawImage(croppedCanvas, sourceCanvas, x, y, size, size, 0, 0, size, size)
Cropped(source, sq) ==
    [width |-> sq.size, height |-> sq.size,
     data |-> [p \in 0..(sq.size * sq.size - 1) |->
                  CanvasPixel(source, sq.x + (p % sq.size), sq.y + (p \div sq.size))]]

CellAt(source, row, col) ==
    [width |-> 2, height |-> 2,
     data |-> [j \in 0..3 |->
                  CanvasPixel(source,
                              ((2 * col + (j % 2)) * source.width) \div (2 * GridSize),
                              ((2 * row + (j \div 2)) * source.height)
                                  \div (2 * GridSize))]]

extractCells(source) ==
    [k \in 1..(GridSize * GridSize) |->
        CellAt(source, (k - 1) \div GridSize, (k - 1) % GridSize)]

\* mutant: a cell without digit is written as a dot
PuzzleCharDot(d) ==
    IF d = Null THEN "." ELSE <<"1", "2", "3", "4", "5", "6", "7", "8", "9">>[d.digit]

\* String(r.digit ?? 0)
PuzzleChar(d) ==
    IF d = Null THEN "0" ELSE <<"1", "2", "3", "4", "5", "6", "7", "8", "9">>[d.digit]

\* the value extractSudokuFromImage resolves with; confidence is the average
\* sum / count as a fraction
BuildResult(cellResults) ==
    LET recognizedCells == {k \in DOMAIN cellResults : cellResults[k].digit # Null}
        total == SumUpTo([k \in 0..(Len(cellResults) - 1) |->
                            IF k + 1 \in recognizedCells
                            THEN cellResults[k + 1].confidence ELSE 0],
                         Len(cellResults) - 1)
    IN  [puzzle |-> [k \in DOMAIN cellResults |-> PuzzleChar(cellResults[k].digit)],
         confidence |-> IF recognizedCells # {}
                        THEN [num |-> total, den |-> Cardinality(recognizedCells)]
                        ELSE [num |-> 0, den |-> 1],
         digitCount |-> Cardinality(recognizedCells),
         cellResults |-> cellResults]

Answer(t, c) == {[text |-> t, confidence |-> [value |-> c]]}

Scenarios ==
    <<[normal |-> Answer(<<"5", "\n">>, 95),    dilated |-> {Throw}],
      [normal |-> Answer(<<"x">>, 95),          dilated |-> Answer(<<" ", "8">>, 95)],
      [normal |-> Answer(<<"5">>, 0),           dilated |-> Answer(<<"l">>, 50)],
      [normal |-> {Throw},                      dilated |-> {Throw}],
      [normal |-> Answer(<<"x">>, 50),          dilated |-> {Throw}],
      [normal |-> Answer(<<>>, 0),              dilated |-> Answer(<<>>, 0)],
      [normal |-> Answer(<<"l">>, 95),          dilated |-> {Throw}]>>

\* the board images: every cell inked, every second cell inked, and blank,
\* inked and faint cells in turn
BoardImages ==
    {[width |-> 2 * GridSize, height |-> 2 * GridSize,
      data |-> [p \in 0..(4 * GridSize * GridSize - 1) |->
                   LET x == p % (2 * GridSize)
                       y == p \div (2 * GridSize)
                       k == (y \div 2) * GridSize + (x \div 2)
                       kind == kinds[(k % Len(kinds)) + 1]
                   IN  kind.data[(y % 2) * 2 + (x % 2)]]] :
        kinds \in {<<Inked>>, <<Inked, Blank>>, <<Blank, Inked, Faint, Inked>>}}

Loading == Event("loading", 0, 1, "Loading image...", 0)
Detecting == Event("processing", 5, 1, "Detecting board...", 0)
Processing == Event("processing", 15, 1, "Processing image...", 0)
Recognizing == Event("recognizing", 20, 1, "Recognizing digits...", 0)
Finalizing == Event("processing", 95, 1, "Finalizing...", 0)
Complete == Event("complete", 100, 1, "Complete", 0)

InitExtract ==
    /\ pc = "start"
    /\ cfg \in {[skipBoardDetection |-> b, preprocess |-> FALSE] : b \in BOOLEAN}
    /\ events = <<>>
    /\ imageData \in BoardImages
    /\ minConfidence \in {1, 60}
    /\ \E offset \in 0..(Len(Scenarios) - 1) :
          engine = [k \in 1..(GridSize * GridSize) |->
                       Scenarios[((k - 1 + offset) % Len(Scenarios)) + 1]]
    /\ cells = <<>> /\ cellIndex = 0 /\ results = <<>> /\ calls = <<>>
    /\ finalConfidence = 0 /\ finalText = <<>> /\ ocrResult = Null
    /\ drawn = Null
    /\ NoMaps /\ NoLines /\ NoText /\ NoPixels
    /\ heap = <<>>
    /\ rectangle = Null /\ square = Null

\* extractSudokuFromImage up to await adapter.loadImage(imageSource)
LoadImage ==
    /\ pc = "start"
    /\ events' = Append(events, Loading)
    /\ pc' = "loaded"
    /\ UNCHANGED <<imageData, drawn, gray, blurred, edges, hLines, vLines, tried,
                   rectangle, square, text, digit, pixelVars, cells, minConfidence,
                   engine, cellIndex, results, calls, finalConfidence, finalText,
                   ocrResult, cfg>>

\* extractSudokuFromImage from the loaded image to the call of recognizeCells
ExtractCells ==
    /\ pc = "loaded"
    /\ IF cfg.skipBoardDetection
       THEN /\ cells' = extractCells(imageData)
            /\ events' = events \o <<Processing, Recognizing>>
            /\ UNCHANGED <<rectangle, square>>
       ELSE \E d \in {detectBoardRectangle(imageData)} :
              /\ rectangle' = d.rectangle
              /\ IF d.rectangle # Null
                 THEN \E sq \in {squarifyRectangle(d.rectangle)} :
                        /\ square' = sq
                        /\ cells' = extractCells(Cropped(imageData, sq))
                 ELSE /\ square' = square
                      /\ cells' = extractCells(imageData)
              /\ events' = events \o <<Detecting, Processing, Recognizing>>
    /\ pc' = "call"
    /\ UNCHANGED <<imageData, drawn, gray, blurred, edges, hLines, vLines, tried,
                   text, digit, pixelVars, minConfidence,
                   engine, cellIndex, results, calls, finalConfidence, finalText,
                   ocrResult, cfg>>

\* extractSudokuFromImage after recognizeCells returned
Resolve ==
    /\ pc = "returned"
    /\ ocrResult' = BuildResult(results)
    /\ events' = events \o <<Finalizing, Complete>>
    /\ pc' = "resolved"
    /\ UNCHANGED <<imageData, drawn, gray, blurred, edges, hLines, vLines, tried,
                   rectangle, square, text, digit, pixelVars, cells, minConfidence,
                   engine, cellIndex, results, calls, finalConfidence, finalText,
                   cfg>>

NextExtract ==
    \/ LoadImage \/ ExtractCells
    \/ CreateWorker \/ SetParameters \/ SetParametersFails \/ AdapterFails
    \/ CheckCell \/ Recognize \/ RecognizeDilated \/ Terminate \/ Resolve

SpecExtract == InitExtract /\ [][NextExtract]_vars

(***************************************************************************)
(* The crop rectangles of extractCells: what it hands to adapter.drawImage *)
(* as srcX, srcY, srcWidth, srcHeight for each cell.  The numbers are      *)
(* fractions; boards have sides divisible by 9 and margins are sixteenths, *)
(* for which the doubles of the source are these fractions exactly.        *)
(***************************************************************************)
MaxBoard == 3

Frac(n, d) == [num |-> n, den |-> d]
Plus(a, b) == Frac(a.num * b.den + b.num * a.den, a.den * b.den)
Minus(a, b) == Frac(a.num * b.den - b.num * a.den, a.den * b.den)
Times(a, b) == Frac(a.num * b.num, a.den * b.den)

\* mutant: the margin is taken off one side only
Once(a) == a

\* 2 * marginX, 2 * marginY
Twice(a) == Times(Frac(2, 1), a)

cropAt(cellWidth, cellHeight, marginX, marginY, row, col) ==
    [srcX |-> Plus(Times(Frac(col, 1), cellWidth), marginX),
     srcY |-> Plus(Times(Frac(row, 1), cellHeight), marginY),
     srcWidth |-> Minus(cellWidth, Twice(marginX)),
     srcHeight |-> Minus(cellHeight, Twice(marginY))]

\* the loops over row and col of extractCells, one crop per cells.push
cellCrops(source, marginRatio) ==
    LET cellWidth  == Frac(source.width, GridSize)
        cellHeight == Frac(source.height, GridSize)
        marginX    == Times(cellWidth, marginRatio)
        marginY    == Times(cellHeight, marginRatio)
    IN  [k \in 1..(GridSize * GridSize) |->
            cropAt(cellWidth, cellHeight, marginX, marginY,
                   (k - 1) \div GridSize, (k - 1) % GridSize)]

Margins == {Frac(n, 16) : n \in 0..7}

InitCrop ==
    /\ pc = "board"
    /\ \E a \in 1..MaxBoard, b \in 1..MaxBoard :
          imageData = [width |-> GridSize * a, height |-> GridSize * b]
    /\ cfg \in {[cellMargin |-> m] : m \in Margins}
    /\ cells = <<>> /\ minConfidence = 0 /\ engine = <<>> /\ cellIndex = 0
    /\ results = <<>> /\ calls = <<>> /\ finalConfidence = 0 /\ finalText = <<>>
    /\ ocrResult = Null /\ events = <<>>
    /\ drawn = Null
    /\ NoMaps /\ NoLines /\ NoText /\ NoPixels
    /\ heap = <<>>
    /\ rectangle = Null /\ square = Null

\* extractCells(adapter, source, cfg.cellMargin)
CropCells ==
    /\ pc = "board"
    /\ cells' = cellCrops(imageData, cfg.cellMargin)
    /\ pc' = "cropped"
    /\ UNCHANGED <<imageData, drawn, gray, blurred, edges, hLines, vLines, tried,
                   rectangle, square, text, digit, pixelVars, minConfidence,
                   engine, cellIndex, results, calls, finalConfidence, finalText,
                   ocrResult, cfg, events>>

NextCrop == CropCells

SpecCrop == InitCrop /\ [][NextCrop]_vars

(***************************************************************************)
(* Board location: claims C1 - C4                                          *)
(***************************************************************************)
IsRectangle(r) == DOMAIN r = {"left", "top", "right", "bottom"}

PrimaryResult ==
    findRectangleFromLines(hLines, vLines, imageData.width, imageData.height)
DensityResult ==
    findRectangleLowThreshold(edges, imageData.width, imageData.height)
DarkResult ==
    findRectangleDarkPixels(gray, imageData.width, imageData.height)

\* C1: detectBoardRectangle returns a rectangle, never null, for every image
\* of width >= 1 and height >= 1; when the line strategy and the density
\* strategy both yield nothing, the dark-pixel strategy supplies the result.
C1_AlwaysARectangle ==
    pc = "detected" =>
        /\ rectangle # Null
        /\ IsRectangle(rectangle)
        /\ (PrimaryResult = Null /\ DensityResult = Null)
              => LET dark == DarkResult
                 IN  IsRectangle(dark) /\ rectangle = dark

C1_Witness ==
    /\ pc = "detected"
    /\ PrimaryResult = Null /\ DensityResult = Null
    /\ tried = <<"lines", "density", "dark">>
    /\ IsRectangle(rectangle)

\* C2: every rectangle produced by the board locator (here by the exported
\* findRectangleDarkPixels on an intensity map) has left < right and
\* top < bottom, with left, right in [0, width) and top, bottom in [0, height).
C2_ProperRectangle ==
    pc = "located" =>
        /\ rectangle.left < rectangle.right
        /\ rectangle.top < rectangle.bottom
        /\ rectangle.left \in 0..(imageData.width - 1)
        /\ rectangle.right \in 0..(imageData.width - 1)
        /\ rectangle.top \in 0..(imageData.height - 1)
        /\ rectangle.bottom \in 0..(imageData.height - 1)

\* C3: the strategies are tried in the order lines, density, dark pixels and
\* the first success wins: the line result is returned whenever it is
\* non-null, the density strategy is evaluated only when the line strategy
\* yielded nothing, the dark-pixel strategy only when both yielded nothing.
C3_FirstSuccessWins ==
    pc = "detected" =>
        LET primary == PrimaryResult
        IN  /\ tried[1] = "lines"
            /\ primary # Null
                  => (tried = <<"lines">> /\ rectangle = primary)
            /\ primary = Null
                  => LET density == DensityResult
                     IN  /\ density # Null
                               => /\ tried = <<"lines", "density">>
                                  /\ rectangle = density
                         /\ density = Null
                               => /\ tried = <<"lines", "density", "dark">>
                                  /\ rectangle = DarkResult

\* the line strategy wins although the density strategy would have answered
\* differently
C3_Witness ==
    /\ pc = "detected"
    /\ PrimaryResult # Null
    /\ DensityResult # Null
    /\ DensityResult # PrimaryResult
    /\ rectangle = PrimaryResult

\* C4: for a dark rectangular border drawn on a uniform light background,
\* with width and height at least 30% of the image dimension, each bound of
\* the rectangle returned by the line strategy is within a small tolerance
\* (a tenth of the image dimension: 20 px on 200) of the drawn border.
Tolerance(n) == n \div 10

C4_DrawnBorderRecovered ==
    ( /\ pc = "detected"
      /\ drawn # Null
      /\ imageData.width >= BoardDim
      /\ drawn.color = 0 /\ drawn.fill = 255
      /\ 10 * (drawn.right - drawn.left) >= 3 * imageData.width
      /\ 10 * (drawn.bottom - drawn.top) >= 3 * imageData.height
      /\ PrimaryResult # Null )
    => /\ Abs(PrimaryResult.left - drawn.left) <= Tolerance(imageData.width)
       /\ Abs(PrimaryResult.right - drawn.right) <= Tolerance(imageData.width)
       /\ Abs(PrimaryResult.top - drawn.top) <= Tolerance(imageData.height)
       /\ Abs(PrimaryResult.bottom - drawn.bottom) <= Tolerance(imageData.height)

(***************************************************************************)
(* Digit text correction: claims C5 - C7                                   *)
(***************************************************************************)
Digits19 == {"1", "2", "3", "4", "5", "6", "7", "8", "9"}
DigitValue ==
    [c \in Digits19 |->
        CASE c = "1" -> 1 [] c = "2" -> 2 [] c = "3" -> 3 [] c = "4" -> 4
          [] c = "5" -> 5 [] c = "6" -> 6 [] c = "7" -> 7 [] c = "8" -> 8
          [] c = "9" -> 9]
Trimmed == Trim(text)
HasDigit19 == \E i \in 1..Len(Trimmed) : Trimmed[i] \in Digits19
HasMapped == \E i \in 1..Len(Trimmed) : Trimmed[i] \in DOMAIN CORRECTIONS

\* C5: when the trimmed text contains a character in '1'..'9',
\* parseDigitFromText returns the leftmost such digit, whatever correctable
\* characters stand before or after it.
C5_LeftmostDigitWins ==
    (pc = "parsed" /\ HasDigit19) =>
        \E i \in 1..Len(Trimmed) :
            /\ Trimmed[i] \in Digits19
            /\ \A j \in 1..(i - 1) : Trimmed[j] \notin Digits19
            /\ digit = [digit |-> DigitValue[Trimmed[i]]]

\* a correctable character of another value stands before the first digit,
\* and a different digit follows it
C5_Witness ==
    /\ pc = "parsed"
    /\ Len(Trimmed) = 3
    /\ Trimmed[1] \in DOMAIN CORRECTIONS /\ Trimmed[1] \notin Digits19
    /\ Trimmed[2] \in Digits19 /\ Trimmed[3] \in Digits19
    /\ Trimmed[2] # Trimmed[3]
    /\ CORRECTIONS[Trimmed[1]] # DigitValue[Trimmed[2]]
    /\ digit = [digit |-> DigitValue[Trimmed[2]]]

\* C6: when the trimmed text contains no digit 1-9, parseDigitFromText
\* returns the table value of the first character, scanning left to right,
\* that is a key of the correction table, skipping unmapped characters;
\* '@#$%^&*()' yields 7 and '0', 'O', 'o' each yield 9.
C6_FirstMappedCharacter ==
    (pc = "parsed" /\ ~HasDigit19) =>
        /\ \A i \in 1..Len(Trimmed) :
              ( /\ Trimmed[i] \in DOMAIN CORRECTIONS
                /\ \A j \in 1..(i - 1) : Trimmed[j] \notin DOMAIN CORRECTIONS )
              => digit = [digit |-> CORRECTIONS[Trimmed[i]]]
        /\ text = <<"@", "#", "$", "%", "^", "&", "*", "(", ")">>
              => digit = [digit |-> 7]
        /\ text \in {<<"0">>, <<"O">>, <<"o">>} => digit = [digit |-> 9]

\* an unmapped character is skipped and the first of two mapped characters
\* of different values decides
C6_Witness ==
    /\ pc = "parsed"
    /\ ~HasDigit19
    /\ Len(Trimmed) = 3
    /\ Trimmed[1] \notin DOMAIN CORRECTIONS
    /\ Trimmed[2] \in DOMAIN CORRECTIONS /\ Trimmed[3] \in DOMAIN CORRECTIONS
    /\ CORRECTIONS[Trimmed[2]] # CORRECTIONS[Trimmed[3]]
    /\ digit = [digit |-> CORRECTIONS[Trimmed[2]]]

\* C7: parseDigitFromText returns an integer in 1..9 or null, never 0; it
\* returns null exactly when the trimmed text is empty or contains neither a
\* digit 1-9 nor a correction-table character; leading or trailing white
\* space does not change the result.
C7_TotalOneToNineOrNull ==
    pc = "parsed" =>
        /\ \/ digit = Null
           \/ (DOMAIN digit = {"digit"} /\ digit.digit \in 1..9)
        /\ (digit = Null) <=> (~HasDigit19 /\ ~HasMapped)
        /\ \A ws \in WhiteSpace :
              /\ parseDigitFromText(<<ws>> \o text) = digit
              /\ parseDigitFromText(text \o <<ws>>) = digit

\* '0' alone: a digit character outside 1..9 that is answered from the table
C7_Witness ==
    /\ pc = "parsed"
    /\ text = <<" ", "0", " ">>
    /\ digit = [digit |-> 9]

(***************************************************************************)
(* squarifyRectangle: claim C8                                             *)
(***************************************************************************)
\* C8: for a rectangle with right > left and bottom > top, size is the
\* smaller of right-left and bottom-top, x - left = floor((right-left-size)/2)
\* and y - top = floor((bottom-top-size)/2); the square lies inside the
\* rectangle, a square rectangle gives x = left and y = top, and
\* {0,0,200,100} gives {x: 50, y: 0, size: 100}.
C8_CenteredSquare ==
    pc = "squared" =>
        LET w == rectangle.right - rectangle.left
            h == rectangle.bottom - rectangle.top
            dx == square.x - rectangle.left
            dy == square.y - rectangle.top
        IN  /\ square.size \in {w, h}
            /\ square.size <= w /\ square.size <= h
            /\ 2 * dx <= w - square.size /\ w - square.size < 2 * dx + 2
            /\ 2 * dy <= h - square.size /\ h - square.size < 2 * dy + 2
            /\ dx >= 0 /\ square.x + square.size <= rectangle.right
            /\ dy >= 0 /\ square.y + square.size <= rectangle.bottom
            /\ w = h => (dx = 0 /\ dy = 0 /\ square.size = w)
            /\ rectangle = [left |-> 0, top |-> 0, right |-> 200, bottom |-> 100]
                  => square = [x |-> 50, y |-> 0, size |-> 100]

\* an odd excess of width, where the floor matters
C8_Witness ==
    /\ pc = "squared"
    /\ rectangle.right - rectangle.left > rectangle.bottom - rectangle.top
    /\ ((rectangle.right - rectangle.left)
          - (rectangle.bottom - rectangle.top)) % 2 = 1
    /\ square.x > rectangle.left
    /\ square.y = rectangle.top

(***************************************************************************)
(* Filters: claims C9 - C10                                                *)
(***************************************************************************)
IsBorderPixel(i) ==
    \/ i % imageData.width = 0
    \/ i % imageData.width = imageData.width - 1
    \/ i \div imageData.width = 0
    \/ i \div imageData.width = imageData.height - 1

IsUniform(map) == \A i \in DOMAIN map : map[i] = map[0]

\* C9: gaussianBlur leaves every border pixel (row 0, last row, column 0,
\* last column) at its input value, so a uniform image of any gray level is
\* returned unchanged at every pixel.
C9_BorderKept ==
    pc = "blurred" =>
        /\ \A i \in DOMAIN gray : IsBorderPixel(i) => blurred[i] = gray[i]
        /\ IsUniform(gray) => blurred = gray

\* C10: cannyEdgeDetection on a uniform intensity map returns a mask that is
\* 0 everywhere; in general its output holds only 0 and 255 and every border
\* pixel is 0.
C10_UniformHasNoEdges ==
    pc = "edged" =>
        /\ \A i \in DOMAIN edges : edges[i] \in {0, 255}
        /\ \A i \in DOMAIN edges : IsBorderPixel(i) => edges[i] = 0
        /\ IsUniform(gray) => \A i \in DOMAIN edges : edges[i] = 0

\* a uniform map of a non-zero level with an interior pixel
C10_Witness ==
    /\ pc = "edged"
    /\ imageData.width >= 3 /\ imageData.height >= 3
    /\ IsUniform(gray) /\ gray[0] > 0
    /\ \A i \in DOMAIN edges : edges[i] = 0

(***************************************************************************)
(* RGBA operations: claims C11 - C15                                       *)
(***************************************************************************)
ExactLumaFloor(p) == (299 * p[1] + 587 * p[2] + 114 * p[3]) \div 1000

\* C11: toGrayscale returns an array of length width * height whose value at
\* each pixel is floor(0.299 R + 0.587 G + 0.114 B), whatever the alpha; white
\* gives 255, black gives 0 and pure red gives 76.
C11_FloorOfWeightedSum ==
    pc = "grayscale" =>
        /\ DOMAIN gray = 0..(imageData.width * imageData.height - 1)
        /\ \A i \in DOMAIN gray :
              LET p == imageData.data[i]
              IN  /\ gray[i] = ExactLumaFloor(p)
                  /\ (p[1] = 255 /\ p[2] = 255 /\ p[3] = 255) => gray[i] = 255
                  /\ (p[1] = 0 /\ p[2] = 0 /\ p[3] = 0) => gray[i] = 0
                  /\ (p[1] = 255 /\ p[2] = 0 /\ p[3] = 0) => gray[i] = 76

\* C12: binarize is idempotent: binarize(binarize(b, t), t) is element for
\* element identical to binarize(b, t), for every buffer b and threshold t.
C12_BinarizeIdempotent ==
    pc = "rebinarized" =>
        /\ second.width = result.width /\ second.height = result.height
        /\ DOMAIN second.data = DOMAIN result.data
        /\ \A i \in DOMAIN result.data : second.data[i] = result.data[i]

\* a binarized buffer with a black and a white pixel that differs from its input
C12_Witness ==
    /\ pc = "rebinarized"
    /\ result # imageData
    /\ \E i, j \in DOMAIN result.data :
          result.data[i][1] = 0 /\ result.data[j][1] = 255
    /\ second = result

\* C13: binarize sets red, green and blue of each pixel to 0 when the pixel's
\* luma is strictly below the threshold and to 255 when it is at or above it,
\* copies alpha, and keeps width, height and length.
C13_BinarizeByLuma ==
    pc = "binarized" =>
        /\ result.width = imageData.width /\ result.height = imageData.height
        /\ DOMAIN result.data = DOMAIN imageData.data
        /\ \A i \in DOMAIN imageData.data :
              LET p == imageData.data[i]
                  val == IF LumaThousandths(p) < 1000 * binarizeThreshold
                         THEN 0 ELSE 255
              IN  result.data[i] = <<val, val, val, p[4]>>

\* the 8 neighbours of pixel i inside the buffer
Neighbours(i, width, height) ==
    {j \in 0..(width * height - 1) :
        /\ j # i
        /\ Abs((j % width) - (i % width)) <= 1
        /\ Abs((j \div width) - (i \div width)) <= 1}

\* C15: in the output of dilate a pixel has red, green and blue 0 if any of
\* its 8 neighbours has luma below 128 and keeps its input colour otherwise;
\* alpha is preserved everywhere.
C15_DilateByNeighbourLuma ==
    pc = "dilated" =>
        \A i \in DOMAIN imageData.data :
            LET p == imageData.data[i]
                darkNeighbour ==
                    \E j \in Neighbours(i, imageData.width, imageData.height) :
                        LumaThousandths(imageData.data[j]) < 128000
            IN  result.data[i] =
                    IF darkNeighbour THEN <<0, 0, 0, p[4]>> ELSE p

\* the exact test of isCellEmpty: n * sum(L^2) - sum(L)^2 < 64 * 10^6 * n^2
ExactStdDevBelowLimit(img) ==
    SpreadTimesN2(img)[1] <
        stdDevLimit * stdDevLimit * img.width * img.height * img.width * img.height

IsUniformBuffer(img) ==
    \A i, j \in DOMAIN img.data :
        img.data[i][1] = img.data[j][1] /\ img.data[i][2] = img.data[j][2]
            /\ img.data[i][3] = img.data[j][3]

\* C14: isCellEmpty is true exactly when the population standard deviation of
\* the per-pixel luma is below 8; so a uniform buffer is empty and a 0/255
\* checkerboard is not.
C14_EmptyIffLowDeviation ==
    pc = "classified" =>
        /\ result = ExactStdDevBelowLimit(imageData)
        /\ IsUniformBuffer(imageData) => result
        /\ (\E w \in 2..imageData.width, h \in 2..imageData.height :
               imageData = Checkerboard(w, h, <<255, 255, 255, 255>>,
                                        <<0, 0, 0, 255>>)) => ~result

(***************************************************************************)
(* Dark-pixel locator: claim C16                                           *)
(***************************************************************************)
\* rows and columns in which more than 10% of the pixels are below 200
DarkRows ==
    {y \in 0..(imageData.height - 1) :
        10 * Cardinality({x \in 0..(imageData.width - 1) :
                            gray[y * imageData.width + x] < 200}) > imageData.width}
DarkColumns ==
    {x \in 0..(imageData.width - 1) :
        10 * Cardinality({y \in 0..(imageData.height - 1) :
                            gray[y * imageData.width + x] < 200}) > imageData.height}

Least(S, default) == IF S = {} THEN default ELSE CHOOSE m \in S : \A v \in S : m <= v
Greatest(S, default) == IF S = {} THEN default ELSE CHOOSE m \in S : \A v \in S : m >= v

\* C16: findRectangleDarkPixels returns top = the smallest row index whose
\* fraction of pixels below 200 exceeds 10% (0 if none), bottom = the largest
\* such row (height - 1 if none), left and right likewise over columns (0 and
\* width - 1 if none); with no such row or column the result is the full image.
C16_DarkExtent ==
    pc = "located" =>
        /\ rectangle.top = Least(DarkRows, 0)
        /\ rectangle.bottom = Greatest(DarkRows, imageData.height - 1)
        /\ rectangle.left = Least(DarkColumns, 0)
        /\ rectangle.right = Greatest(DarkColumns, imageData.width - 1)
        /\ (DarkRows = {} /\ DarkColumns = {}) =>
              rectangle = [left |-> 0, top |-> 0, right |-> imageData.width - 1,
                           bottom |-> imageData.height - 1]

\* a row with exactly 10% dark pixels does not count while its column does
C16_Witness ==
    /\ pc = "located"
    /\ imageData.width = WideDim
    /\ DarkRows = {} /\ DarkColumns # {}
    /\ rectangle.top = 0 /\ rectangle.bottom = imageData.height - 1
    /\ rectangle.left = rectangle.right /\ rectangle.left > 0

(***************************************************************************)
(* Cell recognition: claims C17 - C19                                      *)
(***************************************************************************)
\* positions in calls of the recognize calls made for cell c
RecognizeCalls(c) ==
    {k \in DOMAIN calls : calls[k].op = "recognize" /\ calls[k].cell = c}

LastResult(rs) == rs[Len(rs)]

\* the answers worker.recognize can give to the call made in this state
PossibleAnswers ==
    IF pc = "recognize" THEN engine[cellIndex + 1].normal
    ELSE engine[cellIndex + 1].dilated

\* C17: for a cell that isCellEmpty classifies as empty the engine is never
\* invoked, neither on the normal nor on the dilated rendering, and its result
\* is digit = null, confidence = 100, text = ''; the emptiness check of a cell
\* precedes every recognize call for that cell.
C17_EmptyCellsSkipEngine ==
    /\ \A k \in DOMAIN calls :
          calls[k].op = "recognize" =>
              /\ ~isCellEmpty(cells[calls[k].cell + 1])
              /\ \E j \in 1..(k - 1) :
                    calls[j] = Call("isCellEmpty", calls[k].cell, FALSE)
    /\ \A k \in DOMAIN results :
          isCellEmpty(cells[results[k].index + 1]) =>
              /\ RecognizeCalls(results[k].index) = {}
              /\ results[k].digit = Null
              /\ results[k].confidence = 100
              /\ results[k].text = <<>>

\* a run over an empty cell followed by a cell that went to the engine
C17_Witness ==
    /\ pc = "returned"
    /\ Len(results) = 2
    /\ isCellEmpty(cells[1]) /\ results[1].confidence = 100
    /\ RecognizeCalls(0) = {} /\ RecognizeCalls(1) # {}

C18_ReportedDigit ==
    \A k \in DOMAIN results :
        results[k].digit # Null =>
            /\ results[k].confidence >= minConfidence
            /\ results[k].digit = parseDigitFromText(results[k].text)

\* a result with a digit is pushed only on an answer of the attempt just
\* made whose own confidence reaches minConfidence
C18_AttemptReported ==
    (pc \in {"recognize", "retry"} /\ Len(results') = Len(results) + 1
        /\ LastResult(results').digit # Null) =>
        \E answer \in PossibleAnswers \ {Throw} :
            /\ OrZero(answer.confidence) >= minConfidence
            /\ LastResult(results').confidence = OrZero(answer.confidence)
            /\ LastResult(results').text = Trim(answer.text)
            /\ LastResult(results').digit = parseDigitFromText(Trim(answer.text))

\* C18: in every cell result a non-null digit implies confidence >=
\* minConfidence and digit = parseDigitFromText(text); a digit parsed in an
\* attempt whose confidence is below minConfidence is never reported.
C18_DigitNeedsConfidence == []C18_ReportedDigit /\ [][C18_AttemptReported]_vars

\* a digit reported from the dilated attempt
C18_Witness ==
    /\ Len(results) >= 1
    /\ results[1].digit # Null
    /\ results[1].confidence >= minConfidence /\ minConfidence = 60
    /\ \E k \in RecognizeCalls(0) : calls[k].dilated

C19_CallOrder ==
    \A c \in 0..(Len(cells) - 1) :
        /\ Cardinality(RecognizeCalls(c)) <= 2
        /\ \A k \in RecognizeCalls(c) :
              calls[k].dilated =>
                  \E j \in RecognizeCalls(c) : j < k /\ ~calls[j].dilated

\* the first attempt leads to a dilated one exactly when it returned without
\* an accepted digit; an accepted first attempt ends the cell with one call
C19_RetryAfterRejection ==
    pc = "recognize" =>
        /\ pc' = "retry" =>
              /\ digit' = Null
              /\ \E answer \in PossibleAnswers \ {Throw} :
                    /\ finalText' = Trim(answer.text)
                    /\ finalConfidence' = OrZero(answer.confidence)
                    /\ ~(/\ parseDigitFromText(finalText') # Null
                         /\ finalConfidence' >= minConfidence)
        /\ (Len(results') = Len(results) + 1 /\ LastResult(results').digit # Null) =>
              /\ pc' = "loop"
              /\ Cardinality({k \in DOMAIN calls' :
                                calls'[k].op = "recognize"
                                    /\ calls'[k].cell = cellIndex}) = 1

\* C19: the engine gets a dilated rendering of a cell only after an undilated
\* attempt on that cell finished without an accepted digit; a cell whose first
\* attempt is accepted gets exactly one recognize call; no cell gets more
\* than two.
C19_DilatedOnlyAfterRejection == []C19_CallOrder /\ [][C19_RetryAfterRejection]_vars

\* one cell accepted at once, the other attempted twice
C19_Witness ==
    /\ pc = "returned"
    /\ Len(results) = 2
    /\ results[1].digit # Null /\ Cardinality(RecognizeCalls(0)) = 1
    /\ Cardinality(RecognizeCalls(1)) = 2

(***************************************************************************)
(* The resolved result: claim C20                                          *)
(***************************************************************************)
\* C20: whenever extractSudokuFromImage resolves, whatever the engine returned
\* or threw on individual cells, cellResults has exactly 81 entries with entry
\* i having index = i, row = floor(i / 9), column = i mod 9; puzzle is an
\* 81-character string whose i-th character is the digit of cell i, or '0'
\* when the cell has no digit; digitCount is the number of non-'0' characters.
C20_ResultShape ==
    pc = "resolved" =>
        /\ Len(ocrResult.cellResults) = 81
        /\ Len(ocrResult.puzzle) = 81
        /\ \A k \in 0..80 :
              LET r == ocrResult.cellResults[k + 1]
                  c == ocrResult.puzzle[k + 1]
              IN  /\ r.index = k /\ r.row = k \div 9 /\ r.column = k % 9
                  /\ IF r.digit = Null THEN c = "0"
                     ELSE IsDigit19(c) /\ parseInt(c) = r.digit.digit
        /\ ocrResult.digitCount =
              Cardinality({k \in 1..81 : ocrResult.puzzle[k] # "0"})

\* a resolved run with recognized cells, empty cells and a cell whose first
\* recognize call threw
C20_Witness ==
    /\ pc = "resolved"
    /\ ocrResult.digitCount > 0
    /\ \E k \in 1..81 : ocrResult.cellResults[k].confidence = 100
                           /\ ocrResult.cellResults[k].digit = Null
    /\ \E k \in 1..81 :
          /\ ocrResult.cellResults[k].digit = Null
          /\ ocrResult.cellResults[k].confidence = 0
          /\ Cardinality(RecognizeCalls(k - 1)) = 1

(***************************************************************************)
(* Storage of the stages: claim C21                                        *)
(***************************************************************************)
\* the array handed to the stage that has run (or will run)
StageInput == IF pc \in {"map", "blurred", "edged", "located"} THEN gray ELSE imageData.data

SameDimensions(out) ==
    /\ out.width = imageData.width
    /\ out.height = imageData.height
    /\ DOMAIN out.data = DOMAIN imageData.data

IsFreshArray(ref, inputs, value) ==
    /\ ref \in DOMAIN heap
    /\ ref \notin inputs
    /\ heap[ref] = value

PositionsOf(lines) == {lines[i].position : i \in 1..Len(lines)}

\* the (top, bottom, left, right) combinations of the nested loops that are
\* at least 30% of the image high and wide
Candidates ==
    {[left |-> vLines[k].position, top |-> hLines[i].position,
      right |-> vLines[l].position, bottom |-> hLines[j].position] :
        <<i, j, k, l>> \in
            {q \in (1..Len(hLines)) \X (1..Len(hLines))
                     \X (1..Len(vLines)) \X (1..Len(vLines)) :
                /\ q[1] < q[2] /\ q[3] < q[4]
                /\ 10 * (hLines[q[2]].position - hLines[q[1]].position)
                      >= 3 * imageData.height
                /\ 10 * (vLines[q[4]].position - vLines[q[3]].position)
                      >= 3 * imageData.width}}

\* C22: findRectangleFromLines returns nothing when an axis has fewer than
\* two grouped lines or no combination is at least 30% of the image high and
\* wide; a returned rectangle is at least 30% of the image high and wide and
\* its four bounds are positions of grouped lines.
C22_RectangleFromGroupedLines ==
    pc = "found" =>
        /\ (Len(hLines) < 2 \/ Len(vLines) < 2 \/ Candidates = {})
              => rectangle = Null
        /\ rectangle # Null =>
              /\ 10 * (rectangle.bottom - rectangle.top) >= 3 * imageData.height
              /\ 10 * (rectangle.right - rectangle.left) >= 3 * imageData.width
              /\ rectangle.top \in PositionsOf(hLines)
              /\ rectangle.bottom \in PositionsOf(hLines)
              /\ rectangle.left \in PositionsOf(vLines)
              /\ rectangle.right \in PositionsOf(vLines)

\* a rectangle was chosen among several combinations, others being too small
C22_Witness ==
    /\ pc = "found"
    /\ rectangle # Null
    /\ Len(hLines) = 3 /\ Len(vLines) = 3
    /\ Cardinality(Candidates) = 2

\* c comes before d in the order of the loops over top, bottom, left, right
ScanBefore(c, d) ==
    \/ c.top < d.top
    \/ (c.top = d.top /\ c.bottom < d.bottom)
    \/ (c.top = d.top /\ c.bottom = d.bottom /\ c.left < d.left)
    \/ (c.top = d.top /\ c.bottom = d.bottom /\ c.left = d.left /\ c.right < d.right)

MergedInto(lines, out, block) ==
    /\ \A i \in 1..Len(lines), j \in 1..Len(lines) : i <= j => block[i] <= block[j]
    /\ \A g \in 1..Len(out) :
          /\ \E i \in 1..Len(lines) :
                /\ block[i] = g
                /\ lines[i].position = out[g].position
                /\ lines[i].strength = out[g].strength
          /\ \A i \in 1..Len(lines) :
                block[i] = g =>
                    lines[i].strength.num * out[g].strength.den
                        <= out[g].strength.num * lines[i].strength.den

Sorted(lines) ==
    \A i \in 1..Len(lines), j \in 1..Len(lines) :
        i < j => lines[i].position < lines[j].position

GroupedFrom(lines, out, marginNum) ==
    /\ Sorted(out)
    /\ \A g \in 1..Len(out), o \in 1..Len(out) :
          g # o => 100 * Abs(out[g].position - out[o].position) >= marginNum
    /\ \E block \in [1..Len(lines) -> 1..Len(out)] : MergedInto(lines, out, block)

\* C24: for lines in increasing position order groupLines returns lines in
\* strictly increasing position order, any two of them at least the margin
\* apart, each with the greatest strength of the lines merged into it and
\* the position of a merged line of that strength.
C24_GroupLines ==
    [][(pc = "lines" /\ Sorted(hLines) /\ Sorted(vLines)) =>
          /\ GroupedFrom(hLines, hLines',
                         3 * Min(imageData.width, imageData.height))
          /\ GroupedFrom(vLines, vLines',
                         3 * Min(imageData.width, imageData.height))]_vars

\* the lines at 0, 2 and 3 of increasing strength were merged into one at 3
C24_Witness ==
    /\ pc = "grouped"
    /\ Len(hLines) = 1
    /\ hLines[1].position = 3
    /\ hLines[1].strength.num = (imageData.width \div 2) + 3

\* there are len consecutive edge pixels in row y / column x
HasRowRun(y, len) ==
    \E s \in 0..(imageData.width - len) :
        \A x \in s..(s + len - 1) : edges[y * imageData.width + x] > 0
HasColRun(x, len) ==
    \E s \in 0..(imageData.height - len) :
        \A y \in s..(s + len - 1) : edges[y * imageData.width + x] > 0

RowRun(y) == MaxOf({len \in 0..imageData.width : HasRowRun(y, len)})
ColRun(x) == MaxOf({len \in 0..imageData.height : HasColRun(x, len)})

\* lines has one line at each position of 0..count-1 whose run is at least
\* half of extent, of strength run / extent, and no other line
ScanResult(lines, count, run, extent) ==
    /\ Sorted(lines)
    /\ \A p \in 0..(count - 1) :
          (2 * run[p] >= extent) <=> (p \in PositionsOf(lines))
    /\ \A i \in 1..Len(lines) :
          /\ lines[i].position \in 0..(count - 1)
          /\ lines[i].strength = [num |-> run[lines[i].position], den |-> extent]
          /\ 2 * lines[i].strength.num >= lines[i].strength.den
          /\ lines[i].strength.num <= lines[i].strength.den

\* C25: the horizontal scan records a line at row y exactly when the longest
\* run of consecutive edge pixels in the row is at least 50% of the width,
\* with strength run / width in [0.5, 1]; the vertical scan likewise with
\* columns and the height; lines are in increasing position order, at most
\* one per row or column.
C25_ScanLines ==
    (pc = "lines" /\ edges # <<>>) =>
        /\ ScanResult(hLines, imageData.height,
                      [y \in 0..(imageData.height - 1) |-> RowRun(y)],
                      imageData.width)
        /\ ScanResult(vLines, imageData.width,
                      [x \in 0..(imageData.width - 1) |-> ColRun(x)],
                      imageData.height)

\* a column with a run of exactly half the height gave a line, a row with
\* edge pixels but a run below half the width gave none, another row a line
C25_Witness ==
    /\ pc = "lines" /\ edges # <<>>
    /\ \E i \in 1..Len(vLines) : 2 * vLines[i].strength.num = imageData.height
    /\ \E y \in 0..(imageData.height - 1) :
          y \notin PositionsOf(hLines) /\ RowRun(y) > 0
    /\ Len(hLines) > 0

\* edge counts per row, and per column between rows top and bottom
RowCounts ==
    [y \in 0..(imageData.height - 1) |-> RowCount(edges, imageData.width, y)]
ColCounts(top, bottom) ==
    [x \in 0..(imageData.width - 1) |->
        ColCount(edges, imageData.width, x, top, bottom)]

\* C26: findRectangleLowThreshold returns nothing exactly when the width
\* right - left found is below 20% of the image width or the height found is
\* below 20% of the image height, and the bounds found otherwise; a side
\* for which no row or column of sustained density is met stays at the image
\* edge (0, or the dimension minus 1).
C26_LowThreshold ==
    pc = "fallback" =>
      \A found \in {lowThresholdBounds(edges, imageData.width, imageData.height)} :
        LET w == imageData.width
            h == imageData.height
            ws == imageData.height \div 20
            band == found.bottom - found.top + 1
        IN  /\ (rectangle = Null) <=>
                  (5 * (found.right - found.left) < w
                     \/ 5 * (found.bottom - found.top) < h)
            /\ rectangle # Null => rectangle = found
            /\ (\A y \in 0..(h - ws - 1) : ~QualifiesUp(RowCounts, y, w, ws))
                  => found.top = 0
            /\ (\A y \in (found.top + ws + 1)..(h - 1) :
                    ~QualifiesDown(RowCounts, y, w, ws, found.top))
                  => found.bottom = h - 1
            /\ (\A x \in 0..(w - ws - 1) :
                    ~QualifiesUp(ColCounts(found.top, found.bottom), x, band, ws))
                  => found.left = 0
            /\ (\A x \in (found.left + ws + 1)..(w - 1) :
                    ~QualifiesDown(ColCounts(found.top, found.bottom), x, band,
                                   ws, found.left))
                  => found.right = w - 1

\* a band was found whose top and left are inside the image while no row met
\* from below qualifies, so that the bottom stayed at the last row
C26_Witness ==
    /\ pc = "fallback"
    /\ rectangle # Null
    /\ rectangle.top > 0 /\ rectangle.left > 0
    /\ rectangle.bottom = imageData.height - 1
    /\ \A y \in (rectangle.top + (imageData.height \div 20) + 1)..(imageData.height - 1) :
          ~QualifiesDown(RowCounts, y, imageData.width, imageData.height \div 20,
                         rectangle.top)

(***************************************************************************)
(* Cell crops, progress and the worker: claims C27 - C30                   *)
(***************************************************************************)
Same(a, b) == a.num * b.den = b.num * a.den
AtMost(a, b) == a.num * b.den <= b.num * a.den

\* offset and extent of cell number index along a side of length side, for
\* the margin m: index * side / 9 + m * side / 9 and (1 - 2m) * side / 9
StatedOffset(index, side, m) ==
    Frac(index * side * m.den + m.num * side, GridSize * m.den)
StatedExtent(side, m) ==
    Frac((m.den - 2 * m.num) * side, GridSize * m.den)

\* [offset, offset + extent] has positive length and lies in the grid cell
\* number index of a side of length side, and in [0, side]
InsideCell(offset, extent, index, side) ==
    /\ extent.num * extent.den > 0
    /\ AtMost(Frac(index * side, GridSize), offset)
    /\ AtMost(Plus(offset, extent), Frac((index + 1) * side, GridSize))
    /\ AtMost(Frac(0, 1), offset)
    /\ AtMost(Plus(offset, extent), Frac(side, 1))

Progress(e) == e.progress
EventsOf(status) == {k \in DOMAIN events : events[k].status = status}

\* C28: in a run of extractSudokuFromImage that resolves, the progress values
\* reported never decrease and lie within 0..100, the first event is
\* 'loading' with 0, every 'recognizing' event lies between 20 and 95, and
\* the last event is the only 'complete' event, with 100.
C28_ProgressEvents ==
    pc = "resolved" =>
        /\ \A j \in DOMAIN events, k \in DOMAIN events :
              j < k => AtMost(Progress(events[j]), Progress(events[k]))
        /\ \A k \in DOMAIN events :
              /\ AtMost(Frac(0, 1), Progress(events[k]))
              /\ AtMost(Progress(events[k]), Frac(100, 1))
        /\ Len(events) > 0
        /\ events[1].status = "loading"
        /\ Same(Progress(events[1]), Frac(0, 1))
        /\ \A k \in EventsOf("recognizing") :
              /\ AtMost(Frac(20, 1), Progress(events[k]))
              /\ AtMost(Progress(events[k]), Frac(95, 1))
        /\ EventsOf("complete") = {Len(events)}
        /\ Same(Progress(events[Len(events)]), Frac(100, 1))

\* a run with board detection has resolved after reporting all 81 cells
C28_Witness ==
    /\ pc = "resolved"
    /\ ~cfg.skipBoardDetection
    /\ events[2] = Detecting
    /\ Len(events) = 87
    /\ Cardinality(EventsOf("recognizing")) = 82

CallsOf(op) == {k \in DOMAIN calls : calls[k].op = op}

\* C29: when recognizeCells has created a worker, worker.terminate() is
\* called exactly once before the promise settles, resolved or rejected, and
\* no worker.recognize call follows it; also when setParameters, a call of
\* the adapter or recognize fails.
C29_WorkerTerminated ==
    (pc \in {"returned", "rejected"} /\ CallsOf("createWorker") # {}) =>
        /\ Cardinality(CallsOf("terminate")) = 1
        /\ \A t \in CallsOf("terminate"), r \in CallsOf("recognize") : r < t

\* C30: the number k of every message 'Recognizing cell k/81...' satisfies
\* 1 <= k <= 81, for each of the 81 cells, the last included.
C30_CellNumberInRange ==
    \A k \in DOMAIN events :
        events[k].message.text = "Recognizing cell" =>
            (1 <= events[k].message.cell /\ events[k].message.cell <= 81)

====
